---- MODULE Spec2Model ----
(***************************************************************************)
(* Habit Engine: a model of the behavioural modelling pipeline             *)
(* (FeatureEngineer, BurnoutRiskModel, AdherenceModel, AnomalyDetector,    *)
(* RecommendationEngine).                                                  *)
(*                                                                         *)
(* Real numbers are fixed point.  Probabilities and hazard scores are in   *)
(* hundredths (0.4 is 40, 1.2 is 120); sleep is in minutes.                *)
(***************************************************************************)
EXTENDS Integers, Sequences, FiniteSets, TLC

VARIABLES
    rec_in,         \* the arguments of the generate_recommendation call
    rec_out,        \* <<the EngineResponse returned>>, <<>> before the call returns
    history_data,   \* the list of DailyBehavior records handed to the pipeline
    df_features,    \* the table FeatureEngineer.enhance returned for it
    feat_pc,        \* position of the feature script
    scenario,       \* which caller built history_data
    calendar,       \* the date of the next daily record
    gap_used,       \* a calendar day has been left without a record
    burn_threshold,     \* BurnoutRiskModel.dropout_threshold
    burn_is_trained,    \* BurnoutRiskModel.is_trained
    burn_cph,           \* BurnoutRiskModel.cph: "unfitted" or "fitted"
    burn_ret,           \* what the last BurnoutRiskModel call returned or raised
    burn_spans,         \* the spans of the episodes the last prepare_data found
    burn_ever_success,  \* some train call has returned status success
    adh_is_trained,     \* AdherenceModel.is_trained
    adh_scaler,         \* AdherenceModel.scaler: "unfitted" or "fitted"
    adh_model,          \* AdherenceModel.model: "unfitted", or fitted on the data the
                        \* scaler holds ("fitted") or on data of an earlier call ("stale")
    adh_ret,            \* what the last AdherenceModel call returned or raised
    adh_ever_success,   \* some train call has returned its metrics
    adh_work,           \* what the last train call prepared and how it split it
    anom_is_trained,    \* AnomalyDetector.is_trained
    anom_op,            \* the last AnomalyDetector call: "none", "train", "check_anomaly"
    anom_ret,           \* the dictionary that call returned
    call_in,            \* what a handler is called with and the models it finds
    call_out,           \* what the handler handed back
    svc_state,          \* the service's global EngineState
    svc_train,          \* where each training request stands
    svc_pred,           \* where the /predict request stands and what it has read
    fit_log,            \* the train calls counted, and the call that fitted each artifact
    eng_is_trained,     \* EngineState.is_trained of the service, one request at a time
    eng_fits,           \* what the service's fitted models answer for each input
    eng_req             \* the last request the service handled, and its response

rec_vars == <<rec_in, rec_out>>
feat_vars == <<history_data, df_features, feat_pc, scenario>>
cal_vars == <<calendar, gap_used>>
burn_vars == <<burn_threshold, burn_is_trained, burn_cph, burn_ret, burn_spans, burn_ever_success>>
adh_vars == <<adh_is_trained, adh_scaler, adh_model, adh_ret, adh_ever_success, adh_work>>
anom_vars == <<anom_is_trained, anom_op, anom_ret>>
call_vars == <<call_in, call_out>>
svc_vars == <<svc_state, svc_train, svc_pred>>
eng_vars == <<eng_is_trained, eng_fits, eng_req>>
vars == <<rec_vars, feat_vars, cal_vars, burn_vars, adh_vars, anom_vars, call_vars, svc_vars,
          fit_log, eng_vars>>

\* the variables of the other components, which an action leaves alone
not_rec_vars == <<feat_vars, cal_vars, burn_vars, adh_vars, anom_vars, call_vars, svc_vars,
    fit_log, eng_vars>>
not_feat_vars == <<rec_vars, cal_vars, burn_vars, adh_vars, anom_vars, call_vars, svc_vars,
    fit_log, eng_vars>>
not_burn_vars == <<rec_vars, adh_vars, anom_vars, call_vars, svc_vars,
    fit_log, eng_vars>>
not_adh_vars == <<rec_vars, burn_vars, anom_vars, call_vars, svc_vars,
    fit_log, eng_vars>>
not_anom_vars == <<rec_vars, burn_vars, adh_vars, call_vars, svc_vars,
    fit_log, eng_vars>>
not_call_vars == <<rec_vars, feat_vars, cal_vars, burn_vars, adh_vars, anom_vars, svc_vars,
    fit_log, eng_vars>>
not_svc_vars == <<rec_vars, feat_vars, cal_vars, burn_vars, adh_vars, anom_vars, call_vars,
    fit_log, eng_vars>>

(***************************************************************************)
(* RecommendationEngine  (src/src/processing/recommender.py)               *)
(***************************************************************************)

\* RecommendationType members used by the engine
RECOVERY == "recovery"
SCALE_DOWN == "scale_down"
ANCHORING == "anchoring"
MAINTAIN == "maintain"

\* thresholds of the cascade
SevereSleepMinutes == 180
DefaultSleepMinutes == 480
BurnoutThreshold == 120
LowAdherence == 40
BorderlineAdherence == 50
StableAdherence == 70
LongAbsenceDays == 7
DefaultMissedDays == 0

\* recent_features.get(key, default): the feature row is a function from the
\* keys it carries to their values
FeatureGet(recent_features, key, default) ==
    IF key \in DOMAIN recent_features THEN recent_features[key] ELSE default

\* the sleep threshold taken in hours instead of minutes
IsSevereSleepDeprivation_Hours(recent_features) ==
    FeatureGet(recent_features, "sleep_duration_minutes", DefaultSleepMinutes) < 3

IsSevereSleepDeprivation(recent_features) ==
    FeatureGet(recent_features, "sleep_duration_minutes", DefaultSleepMinutes)
        < SevereSleepMinutes

\* the sub-branch taken with a strict comparison
AnchoringTitle_Strict(recent_features) ==
    IF FeatureGet(recent_features, "consecutive_misses", DefaultMissedDays) < LongAbsenceDays
    THEN "Don't break the chain"
    ELSE "Everything okay?"

AnchoringTitle(recent_features) ==
    IF FeatureGet(recent_features, "consecutive_misses", DefaultMissedDays) <= LongAbsenceDays
    THEN "Don't break the chain"
    ELSE "Everything okay?"

Response(args, rec_type, title, n_reasons) ==
    [ adherence_probability |-> args.adherence_prob,
      burnout_risk_score    |-> args.burnout_risk,
      is_anomaly            |-> args.is_anomaly,
      recommendation_type   |-> rec_type,
      message_title         |-> title,
      n_reasons             |-> n_reasons ]

\* the adherence branches evaluated before the burnout branch
generate_recommendation_AdherenceFirst(args) ==
    IF IsSevereSleepDeprivation(args.recent_features)
    THEN Response(args, RECOVERY, "Sleep First, Train Later", 2)
    ELSE IF args.is_anomaly
    THEN Response(args, RECOVERY, "Check-in time", 1)
    ELSE IF args.adherence_prob < LowAdherence
    THEN Response(args, ANCHORING, AnchoringTitle(args.recent_features), 2)
    ELSE IF args.adherence_prob < BorderlineAdherence
    THEN Response(args, MAINTAIN, "Time to Shift Gears", 2)
    ELSE IF args.burnout_risk > BurnoutThreshold
    THEN Response(args, SCALE_DOWN, "Protect your energy", 2)
    ELSE IF args.adherence_prob <= StableAdherence
    THEN Response(args, MAINTAIN, "Good Work", 1)
    ELSE Response(args, MAINTAIN, "Keep It Up!", 1)

generate_recommendation(args) ==
    IF IsSevereSleepDeprivation(args.recent_features)
    THEN Response(args, RECOVERY, "Sleep First, Train Later", 2)
    ELSE IF args.is_anomaly
    THEN Response(args, RECOVERY, "Check-in time", 1)
    ELSE IF args.burnout_risk > BurnoutThreshold
    THEN Response(args, SCALE_DOWN, "Protect your energy", 2)
    ELSE IF args.adherence_prob < LowAdherence
    THEN Response(args, ANCHORING, AnchoringTitle(args.recent_features), 2)
    ELSE IF args.adherence_prob < BorderlineAdherence
    THEN Response(args, MAINTAIN, "Time to Shift Gears", 2)
    ELSE IF args.adherence_prob <= StableAdherence
    THEN Response(args, MAINTAIN, "Good Work", 1)
    ELSE Response(args, MAINTAIN, "Keep It Up!", 1)

\* inputs of the engine: values on and around every threshold
SleepInputs == {0, 120, 179, 180, 181, 480}
MissedInputs == {0, 6, 7, 8, 14}
AdherenceInputs == {0, 39, 40, 41, 49, 50, 51, 69, 70, 71, 90, 100}
BurnoutInputs == {0, 50, 100, 119, 120, 121, 150}

\* feature rows: each of the two keys the engine reads is present or absent
FeatureRows ==
    { [k \in {"sleep_duration_minutes", "consecutive_misses"} |->
            IF k = "sleep_duration_minutes" THEN s ELSE m]
        : s \in SleepInputs, m \in MissedInputs }
    \cup { [k \in {"sleep_duration_minutes"} |-> s] : s \in SleepInputs }
    \cup { [k \in {"consecutive_misses"} |-> m] : m \in MissedInputs }

RecArgs ==
    [ adherence_prob : AdherenceInputs,
      burnout_risk : BurnoutInputs,
      is_anomaly : BOOLEAN,
      recent_features : FeatureRows ]

NoCall == <<>>

RecInit ==
    /\ rec_in \in RecArgs
    /\ rec_out = NoCall

GenerateRecommendation ==
    /\ rec_out = NoCall
    /\ rec_out' = <<generate_recommendation(rec_in)>>
    /\ UNCHANGED <<rec_in, not_rec_vars>>

RecNext == GenerateRecommendation

\* the engine not in use
RecIdle ==
    /\ rec_in = [adherence_prob |-> 50, burnout_risk |-> 50, is_anomaly |-> FALSE,
                 recent_features |-> [k \in {"consecutive_misses"} |-> 0]]
    /\ rec_out = NoCall


(***************************************************************************)
(* FeatureEngineer  (src/src/processing/features.py)                       *)
(*                                                                         *)
(* A DailyBehavior is a record; date is a day number whose weekday is      *)
(* date % 7 (0 = Monday).  Steps and sleep are small integers.  Rolling    *)
(* means are in millionths of a unit (so that epsilon = 1e-6 is 1),        *)
(* rolling standard deviations in millionths at a resolution of one        *)
(* thousandth, the two ratios in thousandths.                              *)
(***************************************************************************)

\* 1 / epsilon: the fixed-point scale of the rolling means
EpsilonInv == 1000000
\* pandas' missing value, before fillna(0)
NaN == -1

TrendWindow == 7
TrendMinPeriods == 1
DispersionMinPeriods == 3
MissWindow == 3
BaselineWindow == 30
BaselineMinPeriods == 7
RecoveryBelow == 3
StreakBreakAbove == 4

Max(a, b) == IF a >= b THEN a ELSE b
Min(a, b) == IF a <= b THEN a ELSE b

RECURSIVE SumRange(_, _, _)
\* sum of col[lo..hi]
SumRange(col, lo, hi) == IF lo > hi THEN 0 ELSE col[hi] + SumRange(col, lo, hi - 1)

RECURSIVE IsqrtBetween(_, _, _)
IsqrtBetween(v, lo, hi) ==
    IF lo >= hi THEN lo
    ELSE LET mid == (lo + hi + 1) \div 2
         IN IF mid * mid <= v THEN IsqrtBetween(v, mid, hi) ELSE IsqrtBetween(v, lo, mid - 1)

\* floor of the square root
Isqrt(v) == IsqrtBetween(v, 0, 40000)

\* df.sort_values('date'): the records in ascending date order
RECURSIVE SortByDate(_)
SortByDate(records) ==
    IF records = <<>> THEN <<>>
    ELSE LET first == CHOOSE i \in 1..Len(records) :
                        \A j \in 1..Len(records) :
                            \/ records[i].date < records[j].date
                            \/ (records[i].date = records[j].date /\ i <= j)
             rest == [k \in 1..(Len(records) - 1) |->
                        IF k < first THEN records[k] ELSE records[k + 1]]
         IN <<records[first]>> \o SortByDate(rest)

Column(data, name) == [i \in 1..Len(data) |-> data[i][name]]

\* Series.shift(1)
Shift1(col, i) == IF i = 1 THEN NaN ELSE col[i - 1]

\* the window centred on row i (rolling(..., center=True)) instead of trailing
RollingMean_Centered(col, i, window, min_periods) ==
    LET lo == Max(1, i - window \div 2)
        hi == Min(Len(col), i + window \div 2)
        n == hi - lo + 1
    IN IF n < min_periods THEN NaN
       ELSE (SumRange(col, lo, hi) * EpsilonInv) \div n

\* Series.rolling(window, min_periods).mean() at row i
RollingMean(col, i, window, min_periods) ==
    LET lo == Max(1, i - window + 1)
        n == i - lo + 1
    IN IF n < min_periods THEN NaN
       ELSE (SumRange(col, lo, i) * EpsilonInv) \div n

\* Series.rolling(window, min_periods).std() at row i (sample deviation)
RollingStd(col, i, window, min_periods) ==
    LET lo == Max(1, i - window + 1)
        n == i - lo + 1
        s == SumRange(col, lo, i)
        sq == SumRange([k \in 1..Len(col) |-> col[k] * col[k]], lo, i)
        variance == ((n * sq - s * s) * EpsilonInv) \div (n * (n - 1))
    IN IF n < min_periods THEN NaN ELSE Isqrt(variance) * 1000

\* the rolling sum with min_periods=1: partial windows are summed
RollingSum_PartialWindow(col, i, window) ==
    SumRange(col, Max(1, i - window + 1), i)

\* Series.rolling(window).sum() at row i (min_periods defaults to window)
RollingSum(col, i, window) ==
    LET lo == Max(1, i - window + 1)
        n == i - lo + 1
    IN IF n < window THEN NaN ELSE SumRange(col, lo, i)

\* 1 / (1 + std / (avg + epsilon)), in thousandths
ConsistencyScore(std, avg) ==
    IF std = NaN \/ avg = NaN THEN NaN
    ELSE ((avg + 1) * 1000) \div (avg + 1 + std)

\* steps_7d_avg / (steps_30d_avg + epsilon), in thousandths
EffortRatio(avg7, avg30) ==
    IF avg7 = NaN \/ avg30 = NaN THEN NaN
    ELSE (avg7 * 1000) \div (avg30 + 1)

BoolInt(b) == IF b THEN 1 ELSE 0

\* the miss indicator of rolling_misses_3d
MissOrMissing(data, i) == BoolInt(data[i].data_missing_flag \/ (data[i].exercise_done = FALSE))

\* the indicator with exercise_done not inverted
IsMiss_NotInverted(data, i) == BoolInt(data[i].exercise_done)

\* is_miss = (~df['exercise_done']).astype(int)
IsMiss(data, i) == BoolInt(~data[i].exercise_done)

\* group_id = (is_miss != is_miss.shift()).cumsum(): the number of rows up to
\* i whose indicator differs from that of the row before (the first row does)
GroupId(data, i) ==
    1 + Cardinality({k \in 2..i : IsMiss(data, k) # IsMiss(data, k - 1)})

\* is_miss.groupby(group_id).cumsum(): the sum of is_miss over the rows up to
\* i that have the group_id of row i
ConsecutiveMisses(data, i) ==
    LET own_group == GroupId(data, i)
        miss_in_group == [k \in 1..i |->
            IF IsMiss(data, k) = 1 /\ GroupId(data, k) = own_group THEN 1 ELSE 0]
    IN SumRange(miss_in_group, 1, i)

\* the break flag with >= in the place of >
IsStreakBreak_AtThreshold(consecutive_misses) ==
    BoolInt(consecutive_misses >= StreakBreakAbove)

\* df['is_streak_break'] = (df['consecutive_misses'] > 4).astype(int)
IsStreakBreak(consecutive_misses) ==
    BoolInt(consecutive_misses > StreakBreakAbove)

\* df.fillna(0)
FillNa(v) == IF v = NaN THEN 0 ELSE v

\* the feature row of row i of the date-sorted records
FeatureRow(data, i) ==
    LET steps == Column(data, "total_steps")
        sleep == Column(data, "sleep_duration_minutes")
        done == [k \in 1..Len(data) |-> BoolInt(data[k].exercise_done)]
        misses == [k \in 1..Len(data) |-> MissOrMissing(data, k)]
        steps_7d_avg == RollingMean(steps, i, TrendWindow, TrendMinPeriods)
        sleep_7d_avg == RollingMean(sleep, i, TrendWindow, TrendMinPeriods)
        sleep_variance_7d == RollingStd(sleep, i, TrendWindow, DispersionMinPeriods)
        steps_variance_7d == RollingStd(steps, i, TrendWindow, DispersionMinPeriods)
        day_of_week == data[i].date % 7
        steps_30d_avg == RollingMean(steps, i, BaselineWindow, BaselineMinPeriods)
        consecutive_misses == ConsecutiveMisses(data, i)
        is_streak_break == IsStreakBreak(consecutive_misses)
    IN [ date                    |-> data[i].date,
         total_steps             |-> data[i].total_steps,
         exercise_minutes        |-> data[i].exercise_minutes,
         exercise_done           |-> data[i].exercise_done,
         sleep_duration_minutes  |-> data[i].sleep_duration_minutes,
         data_missing_flag       |-> data[i].data_missing_flag,
         prev_steps              |-> FillNa(Shift1(steps, i)),
         prev_sleep_dur          |-> FillNa(Shift1(sleep, i)),
         prev_exercise_done      |-> FillNa(Shift1(done, i)),
         steps_7d_avg            |-> FillNa(steps_7d_avg),
         sleep_7d_avg            |-> FillNa(sleep_7d_avg),
         sleep_variance_7d       |-> FillNa(sleep_variance_7d),
         steps_variance_7d       |-> FillNa(steps_variance_7d),
         sleep_consistency_score |-> FillNa(ConsistencyScore(sleep_variance_7d, sleep_7d_avg)),
         rolling_misses_3d       |-> FillNa(RollingSum(misses, i, MissWindow)),
         consecutive_misses      |-> consecutive_misses,
         is_recovery_period      |-> BoolInt(consecutive_misses > 0 /\ consecutive_misses < RecoveryBelow),
         is_streak_break         |-> is_streak_break,
         days_since_workout      |-> consecutive_misses * is_streak_break,
         day_of_week             |-> day_of_week,
         is_weekend              |-> BoolInt(day_of_week \in {5, 6}),
         steps_30d_avg           |-> FillNa(steps_30d_avg),
         effort_ratio            |-> FillNa(EffortRatio(steps_7d_avg, steps_30d_avg)) ]

\* enhance without df.sort_values('date'): the rows in the order given
enhance_Unsorted(daily_data) ==
    IF daily_data = <<>> THEN <<>>
    ELSE [i \in 1..Len(daily_data) |-> FeatureRow(daily_data, i)]

\* FeatureEngineer.enhance: an empty list gives an empty table
enhance(daily_data) ==
    IF daily_data = <<>> THEN <<>>
    ELSE LET data == SortByDate(daily_data)
         IN [i \in 1..Len(data) |-> FeatureRow(data, i)]


\* bound: the longest history of the table scenario
MaxDays == 7
\* bound: the length of the history the gap script generates (90 in the script)
GapHistoryDays == 15
\* the script forces the last 14 days to be misses
GapDays == 14

\* the kinds of day of the table scenario: an active day, a rest day, and a
\* logged workout on a day with no steps and no sleep data
DayKinds ==
    { [total_steps |-> 2, exercise_minutes |-> 1, exercise_done |-> TRUE,
       sleep_duration_minutes |-> 2, data_missing_flag |-> FALSE],
      [total_steps |-> 1, exercise_minutes |-> 0, exercise_done |-> FALSE,
       sleep_duration_minutes |-> 1, data_missing_flag |-> FALSE],
      [total_steps |-> 0, exercise_minutes |-> 1, exercise_done |-> TRUE,
       sleep_duration_minutes |-> 0, data_missing_flag |-> TRUE] }

DailyBehavior(kind, date) ==
    [ date                   |-> date,
      total_steps            |-> kind.total_steps,
      exercise_minutes       |-> kind.exercise_minutes,
      exercise_done          |-> kind.exercise_done,
      sleep_duration_minutes |-> kind.sleep_duration_minutes,
      data_missing_flag      |-> kind.data_missing_flag ]

\* one day of generate_history(days) of the gap script: exercise at random
ScriptDay(ex_done, date) ==
    [ date                   |-> date,
      total_steps            |-> 2,
      exercise_minutes       |-> IF ex_done THEN 1 ELSE 0,
      exercise_done          |-> ex_done,
      sleep_duration_minutes |-> 2,
      data_missing_flag      |-> FALSE ]

\* the script's loop: for i in range(1, 15): history[-i] is made a miss
ForcedGap(history) ==
    [i \in 1..Len(history) |->
        IF i > Len(history) - GapDays
        THEN [history[i] EXCEPT !.total_steps = 0, !.exercise_done = FALSE,
                                !.exercise_minutes = 0]
        ELSE history[i]]

FeatInit ==
    /\ scenario \in {"table", "gap"}
    /\ history_data = <<>>
    /\ df_features = <<>>
    /\ feat_pc = "collect"

\* the caller collects one more daily record, a day after the last one
AddRecord ==
    /\ scenario = "table"
    /\ feat_pc = "collect"
    /\ Len(history_data) < MaxDays
    /\ \E kind \in DayKinds :
         history_data' = Append(history_data, DailyBehavior(kind, Len(history_data)))
    /\ UNCHANGED <<df_features, feat_pc, scenario, not_feat_vars>>

\* debug_adherence_v2.py, generate_history: the loop body, one day
GenerateDay ==
    /\ scenario = "gap"
    /\ feat_pc = "collect"
    /\ Len(history_data) < GapHistoryDays
    /\ \E ex_done \in BOOLEAN :
         history_data' = Append(history_data, ScriptDay(ex_done, Len(history_data)))
    /\ UNCHANGED <<df_features, feat_pc, scenario, not_feat_vars>>

\* debug_adherence_v2.py: the 14-day gap is written into the generated history
ForceGap ==
    /\ scenario = "gap"
    /\ feat_pc = "collect"
    /\ Len(history_data) = GapHistoryDays
    /\ history_data' = ForcedGap(history_data)
    /\ feat_pc' = "gap_forced"
    /\ UNCHANGED <<df_features, scenario, not_feat_vars>>

\* df = engineer.enhance(history)
Enhance ==
    /\ \/ scenario = "table" /\ feat_pc = "collect"
       \/ scenario = "gap" /\ feat_pc = "gap_forced"
    /\ df_features' = enhance(history_data)
    /\ feat_pc' = "enhanced"
    /\ UNCHANGED <<history_data, scenario, not_feat_vars>>

FeatNext == AddRecord \/ GenerateDay \/ ForceGap \/ Enhance

\* the feature engineer not in use
FeatIdle ==
    /\ scenario = "none"
    /\ history_data = <<>>
    /\ df_features = <<>>
    /\ feat_pc = "idle"

\* bound: the longest list of records handed over in arbitrary order
MaxShuffle == 3
\* the dates such a list draws from (more dates than records: days may be absent)
ShuffleDates == 0..MaxShuffle

\* the dates already in the list
DatesOf(records) == {records[i].date : i \in 1..Len(records)}

ShuffleInit ==
    /\ scenario = "shuffle"
    /\ history_data = <<>>
    /\ df_features = <<>>
    /\ feat_pc = "collect"

\* the caller appends a record of a day not yet in the list, earlier or later
\* than the records already there
AddAnyDate ==
    /\ scenario = "shuffle"
    /\ feat_pc = "collect"
    /\ Len(history_data) < MaxShuffle
    /\ \E date \in ShuffleDates \ DatesOf(history_data), kind \in DayKinds :
         history_data' = Append(history_data, DailyBehavior(kind, date))
    /\ UNCHANGED <<df_features, feat_pc, scenario, not_feat_vars>>

\* df = engineer.enhance(history) on the list in the order it was given
EnhanceShuffled ==
    /\ scenario = "shuffle"
    /\ feat_pc = "collect"
    /\ df_features' = enhance(history_data)
    /\ feat_pc' = "enhanced"
    /\ UNCHANGED <<history_data, scenario, not_feat_vars>>

ShuffleNext == AddAnyDate \/ EnhanceShuffled

(***************************************************************************)
(* BurnoutRiskModel  (src/src/models/burnout.py)                           *)
(*                                                                         *)
(* A feature table is the sequence of rows enhance returns; its index is   *)
(* the date column.  None is NoDate.                                       *)
(***************************************************************************)

NoDate == -1
MinEpisodeRows == 3
MinEpisodes == 2
\* the neutral risk of an untrained model, 0.5, in hundredths
DefaultRisk == 50

\* df['miss_groups'] = (df['exercise_done'] != df['exercise_done'].shift()).cumsum()
RECURSIVE MissGroups(_, _)
MissGroups(df, i) ==
    IF i = 1 THEN 1
    ELSE MissGroups(df, i - 1) + BoolInt(df[i].exercise_done # df[i - 1].exercise_done)

\* the first date of every miss block, whatever its length
DropoutDates_AnyBlock(df, dropout_threshold) ==
    { df[i].date : i \in { r \in 1..Len(df) :
                             ~df[r].exercise_done /\ (r = 1 \/ df[r - 1].exercise_done) } }

\* the first date of every miss block of at least dropout_threshold rows
DropoutDates(df, dropout_threshold) ==
    LET miss_groups == [i \in 1..Len(df) |-> MissGroups(df, i)]
        miss_rows == { i \in 1..Len(df) : df[i].exercise_done = FALSE }
        block(g) == { i \in miss_rows : miss_groups[i] = g }
        first_row(g) == CHOOSE i \in block(g) : \A j \in block(g) : i <= j
    IN { df[first_row(g)].date :
            g \in { h \in { miss_groups[i] : i \in miss_rows } :
                        Cardinality(block(h)) >= dropout_threshold } }

\* sorted(dropout_dates)
RECURSIVE SortedDates(_)
SortedDates(dates) ==
    IF dates = {} THEN <<>>
    ELSE LET d == CHOOSE x \in dates : \A y \in dates : x <= y
         IN <<d>> \o SortedDates(dates \ {d})

\* df.loc[start:end]: the rows whose date lies in the span, ends included
Subset(df, start, end) == SelectSeq(df, LAMBDA row : start <= row.date /\ row.date <= end)

\* mean of a column over a table, truncated
MeanOf(rows, name) == SumRange(Column(rows, name), 1, Len(rows)) \div Len(rows)


\* the duration counted in rows of the span instead of calendar days
Duration_RowCount(df, start, end) == Len(Subset(df, start, end)) - 1

\* duration = (end - start).days
Duration(df, start, end) == end - start

\* _aggregate_period: <<>> for None, else <<the life>>
AggregatePeriod(df, start, end, event) ==
    LET subset == Subset(df, start, end)
    IN IF Len(subset) < MinEpisodeRows THEN <<>>
       ELSE << [ duration              |-> Duration(df, start, end),
                 event                 |-> event,
                 avg_sleep_consistency |-> MeanOf(subset, "sleep_consistency_score"),
                 avg_effort_ratio      |-> MeanOf(subset, "effort_ratio"),
                 avg_sleep_var         |-> MeanOf(subset, "sleep_variance_7d"),
                 initial_motivation    |->
                    (MeanOf(SubSeq(subset, 1, MinEpisodeRows), "exercise_minutes")) ] >>

\* the restart taken on the death date itself
NextSuccess_Immediate(df, death_date) == death_date

\* future[future['exercise_done'] == True].first_valid_index(): the first
\* later date with exercise, NoDate when there is none
NextSuccess(df, death_date) ==
    LET later == { i \in 1..Len(df) : df[i].date > death_date /\ df[i].exercise_done }
    IN IF later = {} THEN NoDate
       ELSE df[CHOOSE i \in later : \A j \in later : i <= j].date

\* the loop over the death dates: the spans handed to _aggregate_period
\* and the start of the life that is open when the loop ends
RECURSIVE WalkDeaths(_, _, _, _)
WalkDeaths(df, deaths, current_start, calls) ==
    IF deaths = <<>> THEN [calls |-> calls, current_start |-> current_start]
    ELSE LET death_date == Head(deaths)
         IN IF death_date > current_start
            THEN LET died == Append(calls, [start |-> current_start, end |-> death_date, event |-> 1])
                     next_success == NextSuccess(df, death_date)
                 IN IF next_success # NoDate
                    THEN WalkDeaths(df, Tail(deaths), next_success, died)
                    ELSE [calls |-> died, current_start |-> NoDate]
            ELSE WalkDeaths(df, Tail(deaths), current_start, calls)

\* the segmentation that, when no exercise follows the last death date,
\* still closes a censored span from the first row to the last
PeriodCalls_AlwaysCensor(df, dropout_threshold) ==
    LET first == df[1].date
        last == df[Len(df)].date
        dates_of_interest == SortedDates(DropoutDates(df, dropout_threshold))
        walk == WalkDeaths(df, dates_of_interest, first, <<>>)
    IN IF dates_of_interest = <<>>
       THEN << [start |-> first, end |-> last, event |-> 0] >>
       ELSE IF walk.current_start # NoDate
            THEN Append(walk.calls, [start |-> walk.current_start, end |-> last, event |-> 0])
            ELSE Append(walk.calls, [start |-> first, end |-> last, event |-> 0])

\* prepare_data: the spans handed to _aggregate_period, in order
\* (df is sorted by date)
PeriodCalls(df, dropout_threshold) ==
    LET first == df[1].date
        last == df[Len(df)].date
        dates_of_interest == SortedDates(DropoutDates(df, dropout_threshold))
        walk == WalkDeaths(df, dates_of_interest, first, <<>>)
    IN IF dates_of_interest = <<>>
       THEN << [start |-> first, end |-> last, event |-> 0] >>
       ELSE IF walk.current_start # NoDate /\ walk.current_start <= last
            THEN Append(walk.calls, [start |-> walk.current_start, end |-> last, event |-> 0])
            ELSE walk.calls

\* the spans whose life was kept (if life_attrs: lives.append(life_attrs))
EpisodeSpans(df0, dropout_threshold) ==
    LET df == SortByDate(df0)
    IN SelectSeq(PeriodCalls(df, dropout_threshold),
                 LAMBDA c : AggregatePeriod(df, c.start, c.end, c.event) # <<>>)

\* prepare_data of a table with rows: pd.DataFrame(lives)
prepare_data(df0, dropout_threshold) ==
    LET df == SortByDate(df0)
        calls == PeriodCalls(df, dropout_threshold)
        lives == [k \in 1..Len(calls) |->
                    AggregatePeriod(df, calls[k].start, calls[k].end, calls[k].event)]
        kept == SelectSeq(lives, LAMBDA life_attrs : life_attrs # <<>>)
    IN [k \in 1..Len(kept) |-> kept[k][1]]

\* the table enhance returns for an empty list has no columns:
\* df['exercise_done'] raises KeyError
PrepareDataRaises(df) == df = <<>>

Returned(op, status, value) == [op |-> op, raised |-> FALSE, status |-> status, value |-> value]
Raised(op, error) == [op |-> op, raised |-> TRUE, status |-> error, value |-> 0]

\* BurnoutRiskModel.train.  fit_ok: CoxPHFitter.fit returns instead of
\* raising; a fit that raises leaves the fitter as it was.  response_ok:
\* reading cph.concordance_index_ and cph.params_ for the response, which
\* comes after is_trained = True inside the same try, does not raise.
BurnoutTrain(df, dropout_threshold, is_trained, cph, fit_ok, response_ok) ==
    IF PrepareDataRaises(df)
    THEN [ret |-> Raised("train", "KeyError"), is_trained |-> is_trained, cph |-> cph]
    ELSE IF Len(prepare_data(df, dropout_threshold)) < MinEpisodes
    THEN [ret |-> Returned("train", "warning", 0), is_trained |-> is_trained, cph |-> cph]
    ELSE IF ~fit_ok
    THEN [ret |-> Returned("train", "error", 0), is_trained |-> is_trained, cph |-> cph]
    ELSE IF ~response_ok
    THEN [ret |-> Returned("train", "error", 0), is_trained |-> TRUE, cph |-> "fitted"]
    ELSE [ret |-> Returned("train", "success", 0), is_trained |-> TRUE, cph |-> "fitted"]

\* the covariate maps handed to predict_current_risk: the four covariates,
\* or a map that lacks one
CovariateMaps == {"complete", "incomplete"}
\* relative hazards a fitted model can return, in hundredths
HazardValues == {50, 100, 150}

\* predict_current_risk.  hazard: what cph.predict_partial_hazard gives
PredictCurrentRisk(is_trained, cph, covariates, hazard) ==
    IF ~is_trained THEN Returned("predict", "value", DefaultRisk)
    ELSE IF covariates = "incomplete"
    THEN Raised("predict", "Exception")
    ELSE Returned("predict", "value", hazard)

\* bound: the longest history handed to the burnout model
MaxBurnDays == 7
\* the thresholds the model is constructed with (the default is 5)
DropoutThresholds == {2, 5}

BurnInit ==
    /\ burn_threshold \in DropoutThresholds
    /\ burn_is_trained = FALSE
    /\ burn_cph = "unfitted"
    /\ burn_ret = Returned("none", "none", 0)
    /\ burn_spans = <<>>
    /\ burn_ever_success = FALSE
    /\ calendar = 0
    /\ gap_used = FALSE
    /\ scenario = "burnout"
    /\ history_data = <<>>
    /\ df_features = <<>>
    /\ feat_pc = "collect"

\* the caller collects the record of the next calendar day: active or rest
BurnAddDay ==
    /\ feat_pc = "collect"
    /\ Len(history_data) < MaxBurnDays
    /\ \E ex_done \in BOOLEAN :
         history_data' = Append(history_data, ScriptDay(ex_done, calendar))
    /\ calendar' = calendar + 1
    /\ UNCHANGED <<gap_used, df_features, feat_pc, scenario, burn_vars, not_burn_vars>>

\* a calendar day goes by without a record (at most one per history)
BurnSkipDay ==
    /\ feat_pc = "collect"
    /\ history_data # <<>>
    /\ Len(history_data) < MaxBurnDays
    /\ ~gap_used
    /\ gap_used' = TRUE
    /\ calendar' = calendar + 1
    /\ UNCHANGED <<feat_vars, burn_vars, not_burn_vars>>

\* the caller starts over with a new history, keeping the model
BurnNewHistory ==
    /\ feat_pc = "serve"
    /\ history_data' = <<>>
    /\ df_features' = <<>>
    /\ feat_pc' = "collect"
    /\ calendar' = 0
    /\ gap_used' = FALSE
    /\ burn_ret' = Returned("none", "none", 0)
    /\ burn_spans' = <<>>
    /\ UNCHANGED <<scenario, burn_threshold, burn_is_trained, burn_cph, burn_ever_success,
                   not_burn_vars>>

\* df_features = engineer.enhance(history); burnout_model.train(df_features)
BurnTrain ==
    /\ feat_pc = "collect"
    /\ df_features' = enhance(history_data)
    /\ burn_spans' = IF PrepareDataRaises(df_features') THEN <<>>
                     ELSE EpisodeSpans(df_features', burn_threshold)
    /\ \E fit_ok \in BOOLEAN, response_ok \in BOOLEAN :
         \E after \in {BurnoutTrain(df_features', burn_threshold, burn_is_trained,
                                    burn_cph, fit_ok, response_ok)} :
            /\ burn_ret' = after.ret
            /\ burn_is_trained' = after.is_trained
            /\ burn_cph' = after.cph
    /\ burn_ever_success' = (burn_ever_success \/ burn_ret'.status = "success")
    /\ feat_pc' = "serve"
    /\ UNCHANGED <<history_data, scenario, cal_vars, burn_threshold, not_burn_vars>>

\* burnout_model.predict_current_risk(covariates), on a model that has been
\* handed a table or on a new one
BurnPredict ==
    /\ feat_pc = "serve" \/ history_data = <<>>
    /\ \E covariates \in CovariateMaps, hazard \in HazardValues :
         burn_ret' = PredictCurrentRisk(burn_is_trained, burn_cph, covariates, hazard)
    /\ feat_pc' = "serve"
    /\ UNCHANGED <<history_data, df_features, scenario, cal_vars, burn_threshold,
                   burn_is_trained, burn_cph, burn_spans, burn_ever_success, not_burn_vars>>

BurnNext == BurnAddDay \/ BurnSkipDay \/ BurnNewHistory \/ BurnTrain \/ BurnPredict

\* no burnout model in use
BurnIdle ==
    /\ burn_threshold = 5
    /\ burn_is_trained = FALSE
    /\ burn_cph = "unfitted"
    /\ burn_ret = Returned("none", "none", 0)
    /\ burn_spans = <<>>
    /\ burn_ever_success = FALSE

CalIdle ==
    /\ calendar = 0
    /\ gap_used = FALSE

(***************************************************************************)
(* AdherenceModel  (src/src/models/adherence.py)                           *)
(***************************************************************************)

\* train refuses fewer prepared rows than this
MinTrainRows == 10
\* the share of the prepared rows that is the training split, in percent
TrainPercent == 80

\* the columns the model reads from a row
AdhFeatureColumns ==
    { "exercise_done", "exercise_minutes", "total_steps",
      "prev_steps", "prev_sleep_dur", "prev_exercise_done",
      "steps_7d_avg", "sleep_7d_avg",
      "sleep_variance_7d", "sleep_consistency_score",
      "rolling_misses_3d", "is_weekend", "effort_ratio",
      "is_recovery_period", "is_streak_break", "days_since_workout" }

\* data[self.feature_columns] of one row
SelectColumns(row, columns) == [c \in columns |-> row[c]]

\* prepare_data working on the caller's table instead of data = df.copy():
\* the caller's table gets the target column and loses its last row
AdhPrepareData_InPlace(df) ==
    [ X |-> [i \in 1..(Len(df) - 1) |-> SelectColumns(df[i], AdhFeatureColumns)],
      y |-> [i \in 1..(Len(df) - 1) |-> BoolInt(df[i + 1].exercise_done)],
      df |-> [i \in 1..(Len(df) - 1) |->
                [c \in DOMAIN df[i] \cup {"target_next_day"} |->
                    IF c = "target_next_day" THEN BoolInt(df[i + 1].exercise_done)
                    ELSE df[i][c]]] ]

\* AdherenceModel.prepare_data: the target of row i is exercise_done of row
\* i + 1, and the last row, which has no target, is dropped; df is the
\* caller's table after the call
AdhPrepareData(df) ==
    [ X |-> [i \in 1..(Len(df) - 1) |-> SelectColumns(df[i], AdhFeatureColumns)],
      y |-> [i \in 1..(Len(df) - 1) |-> BoolInt(df[i + 1].exercise_done)],
      df |-> df ]

\* data['exercise_done'] on the table without columns raises KeyError
AdhPrepareDataRaises(df) == df = <<>>

\* the split index taken at the share of the test rows
SplitIdx_TestShare(n) == (n * (100 - TrainPercent)) \div 100

\* split_idx = int(len(X) * 0.8)
SplitIdx(n) == (n * TrainPercent) \div 100

\* LogisticRegression.fit raises ValueError on a target of one class
FitRaises(y_train) == Cardinality({y_train[i] : i \in DOMAIN y_train}) < 2

\* is_trained set before the classifier is fitted
AdherenceTrain_FlagBeforeFit(df, is_trained, scaler, model) ==
    IF AdhPrepareDataRaises(df)
    THEN [ret |-> Raised("train", "KeyError"),
          is_trained |-> is_trained, scaler |-> scaler, model |-> model]
    ELSE IF Len(AdhPrepareData(df).X) < MinTrainRows
    THEN [ret |-> Returned("train", "error", 0),
          is_trained |-> is_trained, scaler |-> scaler, model |-> model]
    ELSE IF FitRaises(SubSeq(AdhPrepareData(df).y, 1, SplitIdx(Len(df) - 1)))
    THEN [ret |-> Raised("train", "ValueError"),
          is_trained |-> TRUE, scaler |-> "fitted",
          model |-> IF model = "unfitted" THEN "unfitted" ELSE "stale"]
    ELSE [ret |-> Returned("train", "metrics", 0),
          is_trained |-> TRUE, scaler |-> "fitted", model |-> "fitted"]

\* AdherenceModel.train.  The scaler is refitted on the training split before
\* the classifier is fitted; a classifier fit that raises leaves the
\* classifier of the earlier call.  The evaluation that follows
\* is_trained = True catches the one exception it can raise (roc_auc_score's
\* ValueError), so a call that sets the flag returns the metrics.
AdherenceTrain(df, is_trained, scaler, model) ==
    IF AdhPrepareDataRaises(df)
    THEN [ret |-> Raised("train", "KeyError"),
          is_trained |-> is_trained, scaler |-> scaler, model |-> model]
    ELSE IF Len(AdhPrepareData(df).X) < MinTrainRows
    THEN [ret |-> Returned("train", "error", 0),
          is_trained |-> is_trained, scaler |-> scaler, model |-> model]
    ELSE IF FitRaises(SubSeq(AdhPrepareData(df).y, 1, SplitIdx(Len(df) - 1)))
    THEN [ret |-> Raised("train", "ValueError"),
          is_trained |-> is_trained, scaler |-> "fitted",
          model |-> IF model = "unfitted" THEN "unfitted" ELSE "stale"]
    ELSE [ret |-> Returned("train", "metrics", 0),
          is_trained |-> TRUE, scaler |-> "fitted", model |-> "fitted"]

\* no train call has prepared anything
NoWork == [prepared |-> FALSE]

\* train up to the scaler: what prepare_data returned, the caller's table
\* after it, and the positions (iloc) of the rows of X in the training
\* split, in the test split and in the data the scaler was fitted on
AdhTrainWork(df) ==
    IF AdhPrepareDataRaises(df) THEN NoWork
    ELSE LET data == AdhPrepareData(df)
             n == Len(data.X)
             split_idx == SplitIdx(n)
         IN [ prepared |-> TRUE, X |-> data.X, y |-> data.y, df |-> data.df,
              split |-> n >= MinTrainRows,
              train |-> IF n < MinTrainRows THEN {} ELSE 1..split_idx,
              test |-> IF n < MinTrainRows THEN {} ELSE (split_idx + 1)..n,
              scaler_fit |-> IF n < MinTrainRows THEN {} ELSE 1..split_idx ]

\* probabilities predict_proba can give, in hundredths
ProbaValues == {10, 50, 90}

\* AdherenceModel.predict_next_day_proba.  proba: what predict_proba gives
PredictNextDayProba(is_trained, recent_feature_row, proba) ==
    IF ~is_trained THEN Raised("predict", "Model not trained yet")
    ELSE IF ~(AdhFeatureColumns \subseteq DOMAIN recent_feature_row)
    THEN Raised("predict", "KeyError")
    ELSE Returned("predict", "value", proba)

\* rows handed to inference: a feature row, and a raw record, which lacks
\* the engineered columns
InferenceRows == { enhance(<<ScriptDay(TRUE, 0)>>)[1], ScriptDay(TRUE, 0) }

\* bound: the longest history handed to the adherence model
MaxAdhDays == 11

AdhInit ==
    /\ adh_is_trained = FALSE
    /\ adh_scaler = "unfitted"
    /\ adh_model = "unfitted"
    /\ adh_ret = Returned("none", "none", 0)
    /\ adh_ever_success = FALSE
    /\ adh_work = NoWork
    /\ calendar = 0
    /\ gap_used = FALSE
    /\ scenario = "adherence"
    /\ history_data = <<>>
    /\ df_features = <<>>
    /\ feat_pc = "collect"

\* the caller collects the record of the next day: active or rest
AdhAddDay ==
    /\ feat_pc = "collect"
    /\ Len(history_data) < MaxAdhDays
    /\ \E ex_done \in BOOLEAN :
         history_data' = Append(history_data, ScriptDay(ex_done, calendar))
    /\ calendar' = calendar + 1
    /\ UNCHANGED <<gap_used, df_features, feat_pc, scenario, adh_vars, not_adh_vars>>

\* the caller starts over with a new history, keeping the model
AdhNewHistory ==
    /\ feat_pc = "serve"
    /\ history_data' = <<>>
    /\ df_features' = <<>>
    /\ feat_pc' = "collect"
    /\ calendar' = 0
    /\ adh_ret' = Returned("none", "none", 0)
    /\ adh_work' = NoWork
    /\ UNCHANGED <<gap_used, scenario, adh_is_trained, adh_scaler, adh_model,
                   adh_ever_success, not_adh_vars>>

\* df_features = engineer.enhance(history); adherence_model.train(df_features)
AdhTrain ==
    /\ feat_pc = "collect"
    /\ \E table \in {enhance(history_data)} :
         /\ adh_work' = AdhTrainWork(table)
         /\ df_features' = IF adh_work'.prepared THEN adh_work'.df ELSE table
         /\ \E after \in {AdherenceTrain(table, adh_is_trained, adh_scaler, adh_model)} :
              /\ adh_ret' = after.ret
              /\ adh_is_trained' = after.is_trained
              /\ adh_scaler' = after.scaler
              /\ adh_model' = after.model
    /\ adh_ever_success' = (adh_ever_success \/ adh_ret' = Returned("train", "metrics", 0))
    /\ feat_pc' = "serve"
    /\ UNCHANGED <<history_data, scenario, cal_vars, not_adh_vars>>

\* adherence_model.predict_next_day_proba(row), on a model that has been
\* handed a table or on a new one
AdhPredict ==
    /\ feat_pc = "serve" \/ history_data = <<>>
    /\ \E row \in InferenceRows, proba \in ProbaValues :
         adh_ret' = PredictNextDayProba(adh_is_trained, row, proba)
    /\ feat_pc' = "serve"
    /\ UNCHANGED <<history_data, df_features, scenario, cal_vars, adh_is_trained,
                   adh_scaler, adh_model, adh_ever_success, adh_work, not_adh_vars>>

AdhNext == AdhAddDay \/ AdhNewHistory \/ AdhTrain \/ AdhPredict

\* no adherence model in use
AdhIdle ==
    /\ adh_is_trained = FALSE
    /\ adh_scaler = "unfitted"
    /\ adh_model = "unfitted"
    /\ adh_ret = Returned("none", "none", 0)
    /\ adh_ever_success = FALSE
    /\ adh_work = NoWork

(***************************************************************************)
(* AnomalyDetector  (src/src/models/anomaly.py)                            *)
(***************************************************************************)

\* train refuses a table of fewer rows than this
MinAnomalyRows == 14

\* the columns the detector reads from a row
AnomFeatureCols == {"total_steps", "sleep_duration_minutes", "sleep_variance_7d"}

\* IsolationForest.predict: 1 for normal, -1 for outlier
Predictions == {1, -1}
\* IsolationForest.decision_function, in hundredths
Scores == {-10, 0, 10}

\* train that resets the flag when it refuses the table
AnomalyTrain_ResetOnReject(df, is_trained, n_anomalies) ==
    IF Len(df) < MinAnomalyRows
    THEN [ret |-> [status |-> "error", message |-> "Need 2 weeks data"],
          is_trained |-> FALSE]
    ELSE [ret |-> [status |-> "success", anomalies_detected_history |-> n_anomalies],
          is_trained |-> TRUE]

\* AnomalyDetector.train.  n_anomalies: the outliers found in the table
AnomalyTrain(df, is_trained, n_anomalies) ==
    IF Len(df) < MinAnomalyRows
    THEN [ret |-> [status |-> "error", message |-> "Need 2 weeks data"],
          is_trained |-> is_trained]
    ELSE [ret |-> [status |-> "success", anomalies_detected_history |-> n_anomalies],
          is_trained |-> TRUE]

\* AnomalyDetector.check_anomaly: the dictionary returned.  pred and score
\* are what the fitted forest gives for the row.
check_anomaly(is_trained, day_row, pred, score) ==
    IF ~is_trained THEN [is_anomaly |-> FALSE, score |-> 0]
    ELSE IF ~(AnomFeatureCols \subseteq DOMAIN day_row)
    THEN [error |-> "Missing columns"]
    ELSE [is_anomaly |-> (pred = -1), severity_score |-> score]

\* bound: the longest history handed to the anomaly detector
MaxAnomDays == 14

AnomInit ==
    /\ anom_is_trained = FALSE
    /\ anom_op = "none"
    /\ anom_ret = [status |-> "none"]
    /\ calendar = 0
    /\ gap_used = FALSE
    /\ scenario = "anomaly"
    /\ history_data = <<>>
    /\ df_features = <<>>
    /\ feat_pc = "collect"

\* the caller collects the record of the next day
AnomAddDay ==
    /\ feat_pc = "collect"
    /\ Len(history_data) < MaxAnomDays
    /\ history_data' = Append(history_data, ScriptDay(TRUE, calendar))
    /\ calendar' = calendar + 1
    /\ UNCHANGED <<gap_used, df_features, feat_pc, scenario, anom_vars, not_anom_vars>>

\* the caller starts over with a new history, keeping the detector
AnomNewHistory ==
    /\ feat_pc = "serve"
    /\ history_data' = <<>>
    /\ df_features' = <<>>
    /\ feat_pc' = "collect"
    /\ calendar' = 0
    /\ anom_op' = "none"
    /\ anom_ret' = [status |-> "none"]
    /\ UNCHANGED <<gap_used, scenario, anom_is_trained, not_anom_vars>>

\* df_features = engineer.enhance(history); anomaly_detector.train(df_features)
AnomTrain ==
    /\ feat_pc = "collect"
    /\ df_features' = enhance(history_data)
    /\ \E n_anomalies \in {0, 1} :
         \E after \in {AnomalyTrain(df_features', anom_is_trained, n_anomalies)} :
            /\ anom_ret' = after.ret
            /\ anom_is_trained' = after.is_trained
    /\ anom_op' = "train"
    /\ feat_pc' = "serve"
    /\ UNCHANGED <<history_data, scenario, cal_vars, not_anom_vars>>

\* anomaly_detector.check_anomaly(row), on a detector that has been handed a
\* table or on a new one
AnomCheck ==
    /\ feat_pc = "serve" \/ history_data = <<>>
    /\ \E day_row \in InferenceRows, pred \in Predictions, score \in Scores :
         anom_ret' = check_anomaly(anom_is_trained, day_row, pred, score)
    /\ anom_op' = "check_anomaly"
    /\ feat_pc' = "serve"
    /\ UNCHANGED <<history_data, df_features, scenario, cal_vars, anom_is_trained,
                   not_anom_vars>>

AnomNext == AnomAddDay \/ AnomNewHistory \/ AnomTrain \/ AnomCheck

\* no anomaly detector in use
AnomIdle ==
    /\ anom_is_trained = FALSE
    /\ anom_op = "none"
    /\ anom_ret = [status |-> "none"]

(***************************************************************************)
(* Callers of the models: the /predict handler (src/src/api/main.py) and   *)
(* the "Analyze Today" handler of the interactive app (src/app.py)         *)
(***************************************************************************)

\* exercise_done of today's record is exercise_minutes > this
HttpExerciseDoneAbove == 10
AppExerciseDoneAbove == 0
\* the probability and the risk the handlers substitute for a failed model
HttpFallbackProb == 50
AppFallbackProb == 0
AppFallbackRisk == 0

CallerPaths == {"http", "app"}
\* minutes of exercise entered for today
MinutesInputs == {0, 5, 10, 11, 45}

\* today's DailyBehavior record as each handler builds it
TodayRecord(path, exercise_minutes) ==
    [ date                   |-> 0,
      total_steps            |-> 2,
      exercise_minutes       |-> exercise_minutes,
      exercise_done          |-> IF path = "http"
                                 THEN exercise_minutes > HttpExerciseDoneAbove
                                 ELSE exercise_minutes > AppExerciseDoneAbove,
      sleep_duration_minutes |-> 2,
      data_missing_flag      |-> FALSE ]

\* df_full.iloc[[-1]]: a row of the feature table, with every column
TodayFeatures == enhance(<<ScriptDay(TRUE, 0)>>)[1]

\* the last feature row as the recommender reads it
CallerFeatureRows ==
    { [k \in {"sleep_duration_minutes", "consecutive_misses"} |->
            IF k = "sleep_duration_minutes" THEN s ELSE m]
        : s \in {120, 180, 480}, m \in {0, 7, 8} }

CallerInputs ==
    [ path : CallerPaths,
      service_trained : BOOLEAN,
      adh_is_trained : BOOLEAN,
      burn_is_trained : BOOLEAN,
      proba : ProbaValues,
      hazard : HazardValues,
      exercise_minutes : MinutesInputs,
      feature_row : CallerFeatureRows ]

NoRecommendation == <<>>

\* what a handler hands back: rec is <<the EngineResponse>> or <<>>
Outcome(status, today_record, adherence_failed, adherence_prob, burnout_risk, rec) ==
    [ status |-> status, today_record |-> today_record,
      adherence_failed |-> adherence_failed, adherence_prob |-> adherence_prob,
      burnout_risk |-> burnout_risk, rec |-> rec ]

\* generate_recommendation as both handlers call it (is_anomaly=False)
Recommend(adherence_prob, burnout_risk, feature_row) ==
    generate_recommendation([ adherence_prob |-> adherence_prob,
                              burnout_risk |-> burnout_risk,
                              is_anomaly |-> FALSE,
                              recent_features |-> feature_row ])

\* POST /predict
HttpPredict(in) ==
    IF ~in.service_trained
    THEN Outcome("http_400", <<>>, FALSE, 0, 0, NoRecommendation)
    ELSE
    LET today_record == TodayRecord("http", in.exercise_minutes)
        adh == PredictNextDayProba(in.adh_is_trained, TodayFeatures, in.proba)
        adh_prob == IF adh.raised THEN HttpFallbackProb ELSE adh.value
        burn == PredictCurrentRisk(in.burn_is_trained,
                                   IF in.burn_is_trained THEN "fitted" ELSE "unfitted",
                                   "complete", in.hazard)
    IN IF burn.raised
       THEN Outcome("http_500", <<today_record>>, adh.raised, adh_prob, 0, NoRecommendation)
       ELSE Outcome("recommendation", <<today_record>>, adh.raised, adh_prob, burn.value,
                    <<Recommend(adh_prob, burn.value, in.feature_row)>>)

\* the "Analyze Today" button of the interactive app: the burnout model is
\* handed the whole feature row, which lacks the covariates it was fitted on
AppAnalyzeToday(in) ==
    LET today_record == TodayRecord("app", in.exercise_minutes)
        adh == PredictNextDayProba(in.adh_is_trained, TodayFeatures, in.proba)
        adh_prob_val == IF adh.raised THEN AppFallbackProb ELSE adh.value
        burn == PredictCurrentRisk(in.burn_is_trained,
                                   IF in.burn_is_trained THEN "fitted" ELSE "unfitted",
                                   "incomplete", in.hazard)
        burnout_risk == IF burn.raised THEN AppFallbackRisk ELSE burn.value
    IN Outcome("recommendation", <<today_record>>, adh.raised, adh_prob_val, burnout_risk,
               <<Recommend(adh_prob_val, burnout_risk, in.feature_row)>>)

NotCalled == [status |-> "none"]

CallerInit ==
    /\ call_in \in CallerInputs
    /\ call_out = NotCalled

HttpPredictCall ==
    /\ call_out = NotCalled
    /\ call_in.path = "http"
    /\ call_out' = HttpPredict(call_in)
    /\ UNCHANGED <<call_in, not_call_vars>>

AppAnalyzeTodayCall ==
    /\ call_out = NotCalled
    /\ call_in.path = "app"
    /\ call_out' = AppAnalyzeToday(call_in)
    /\ UNCHANGED <<call_in, not_call_vars>>

CallerNext == HttpPredictCall \/ AppAnalyzeTodayCall

\* no handler in use
CallerIdle ==
    /\ call_in = [path |-> "none"]
    /\ call_out = NotCalled

(***************************************************************************)
(* The service's shared EngineState under concurrent requests              *)
(* (src/src/api/main.py).  The handlers are plain functions, which the     *)
(* framework runs on a pool of threads; each statement that reads or       *)
(* writes the one global state object is a step.  A history is named by    *)
(* the number of the training request that supplied it, and a feature      *)
(* table or a fitted model by the history it was computed from (0: none).  *)
(* Every history is one both models can be fitted on.                      *)
(***************************************************************************)

\* bound: the training requests the service receives
MaxTrainRequests == 2
TrainRequests == 1..MaxTrainRequests
NoHistory == 0

\* state = EngineState()
EngineState ==
    [ history_data |-> NoHistory, df_features |-> NoHistory,
      adherence_model |-> NoHistory, burnout_model |-> NoHistory,
      is_trained |-> FALSE ]

\* a /predict request that has not read anything
NoPredict ==
    [ pc |-> "idle", history_data |-> NoHistory, adherence_model |-> NoHistory,
      burnout_model |-> NoHistory, overlapped |-> FALSE ]

TrainingInProgress(train) ==
    \E r \in TrainRequests : train[r] \notin {"idle", "done"}

PredictInProgress(pred) == pred.pc \in {"checked", "enhanced", "adherence", "burnout"}

\* a training step taken while a /predict request is in progress overlaps it
Overlap(pred) ==
    IF PredictInProgress(pred) THEN [pred EXCEPT !.overlapped = TRUE] ELSE pred

ServiceInit ==
    /\ svc_state = EngineState
    /\ svc_train = [r \in TrainRequests |-> "idle"]
    /\ svc_pred = NoPredict

\* state.history_data = request.history
TrainLoadHistory(r) ==
    /\ svc_train[r] = "idle"
    /\ svc_state' = [svc_state EXCEPT !.history_data = r]
    /\ svc_train' = [svc_train EXCEPT ![r] = "loaded"]
    /\ svc_pred' = Overlap(svc_pred)
    /\ UNCHANGED not_svc_vars

\* state.df_features = state.engineer.enhance(state.history_data)
TrainEnhance(r) ==
    /\ svc_train[r] = "loaded"
    /\ svc_state' = [svc_state EXCEPT !.df_features = svc_state.history_data]
    /\ svc_train' = [svc_train EXCEPT ![r] = "enhanced"]
    /\ svc_pred' = Overlap(svc_pred)
    /\ UNCHANGED not_svc_vars

\* state.adherence_model.train(state.df_features): the model is refitted in place
TrainAdherence(r) ==
    /\ svc_train[r] = "enhanced"
    /\ svc_state' = [svc_state EXCEPT !.adherence_model = svc_state.df_features]
    /\ svc_train' = [svc_train EXCEPT ![r] = "adherence"]
    /\ svc_pred' = Overlap(svc_pred)
    /\ UNCHANGED not_svc_vars

\* state.burnout_model.train(state.df_features)
TrainBurnout(r) ==
    /\ svc_train[r] = "adherence"
    /\ svc_state' = [svc_state EXCEPT !.burnout_model = svc_state.df_features]
    /\ svc_train' = [svc_train EXCEPT ![r] = "burnout"]
    /\ svc_pred' = Overlap(svc_pred)
    /\ UNCHANGED not_svc_vars

\* state.is_trained = True; return TrainingResponse(...)
TrainFinish(r) ==
    /\ svc_train[r] = "burnout"
    /\ svc_state' = [svc_state EXCEPT !.is_trained = TRUE]
    /\ svc_train' = [svc_train EXCEPT ![r] = "done"]
    /\ svc_pred' = Overlap(svc_pred)
    /\ UNCHANGED not_svc_vars

\* if not state.is_trained: raise HTTPException(status_code=400)
PredictCheckTrained ==
    /\ svc_pred.pc = "idle"
    /\ svc_pred' = [svc_pred EXCEPT
                      !.pc = IF svc_state.is_trained THEN "checked" ELSE "http_400",
                      !.overlapped = svc_state.is_trained /\ TrainingInProgress(svc_train)]
    /\ UNCHANGED <<svc_state, svc_train, not_svc_vars>>

\* full_list = state.history_data + [today_record]; enhance(full_list)
PredictEnhance ==
    /\ svc_pred.pc = "checked"
    /\ svc_pred' = [svc_pred EXCEPT !.pc = "enhanced",
                                    !.history_data = svc_state.history_data]
    /\ UNCHANGED <<svc_state, svc_train, not_svc_vars>>

\* state.adherence_model.predict_next_day_proba(today_features)
PredictAdherence ==
    /\ svc_pred.pc = "enhanced"
    /\ svc_pred' = [svc_pred EXCEPT !.pc = "adherence",
                                    !.adherence_model = svc_state.adherence_model]
    /\ UNCHANGED <<svc_state, svc_train, not_svc_vars>>

\* state.burnout_model.predict_current_risk(risk_input)
PredictBurnout ==
    /\ svc_pred.pc = "adherence"
    /\ svc_pred' = [svc_pred EXCEPT !.pc = "burnout",
                                    !.burnout_model = svc_state.burnout_model]
    /\ UNCHANGED <<svc_state, svc_train, not_svc_vars>>

\* rec = state.recommender.generate_recommendation(...); return rec
PredictReturn ==
    /\ svc_pred.pc = "burnout"
    /\ svc_pred' = [svc_pred EXCEPT !.pc = "returned"]
    /\ UNCHANGED <<svc_state, svc_train, not_svc_vars>>

\* the next /predict request arrives
PredictAgain ==
    /\ svc_pred.pc \in {"returned", "http_400"}
    /\ svc_pred' = NoPredict
    /\ UNCHANGED <<svc_state, svc_train, not_svc_vars>>

ServiceNext ==
    \/ \E r \in TrainRequests : TrainLoadHistory(r)
    \/ \E r \in TrainRequests : TrainEnhance(r)
    \/ \E r \in TrainRequests : TrainAdherence(r)
    \/ \E r \in TrainRequests : TrainBurnout(r)
    \/ \E r \in TrainRequests : TrainFinish(r)
    \/ PredictCheckTrained
    \/ PredictEnhance
    \/ PredictAdherence
    \/ PredictBurnout
    \/ PredictReturn
    \/ PredictAgain

\* the service not running
ServiceIdle ==
    /\ svc_state = EngineState
    /\ svc_train = <<>>
    /\ svc_pred = NoPredict

(***************************************************************************)
(* One of the three models, handed the feature tables of histories of      *)
(* several lengths and trained again and again.  fit_log names the model   *)
(* under training, counts its train calls and records, for every fitted    *)
(* artifact, the call that fitted it (0: none).                            *)
(***************************************************************************)

\* bound: the train calls made on the model
MaxTrainCalls == 3
\* the model classes
ModelNames == {"adherence", "burnout", "anomaly"}
\* bound: the longest history handed to the three models
MaxModelDays == 14
\* the lengths of the histories: none, too short for every model, enough for
\* the adherence model, enough for the anomaly detector
ModelHistoryDays == {0, 5, 11, MaxModelDays}
\* exercise on five days of seven, or every day
ExercisePatterns == {"weekly", "daily"}

\* a history of n consecutive days
ModelHistory(pattern, n) ==
    [i \in 1..n |-> ScriptDay(pattern = "daily" \/ (i - 1) % 7 < 5, i - 1)]

ModelHistories == { ModelHistory(pattern, n) : pattern \in ExercisePatterns, n \in ModelHistoryDays }

\* engineer.enhance(daily_records) of each of these histories
ModelTables == [h \in ModelHistories |-> enhance(h)]

NoFits ==
    [ model |-> "none", calls |-> 0,
      adh_scaler |-> 0, adh_model |-> 0, burn_cph |-> 0, anom_model |-> 0 ]

ModelsInit ==
    /\ scenario = "models"
    /\ history_data = <<>>
    /\ df_features = <<>>
    /\ feat_pc = "serve"
    /\ calendar = 0
    /\ gap_used = FALSE
    /\ adh_is_trained = FALSE
    /\ adh_scaler = "unfitted"
    /\ adh_model = "unfitted"
    /\ adh_ret = Returned("none", "none", 0)
    /\ adh_ever_success = FALSE
    /\ adh_work = NoWork
    /\ burn_threshold \in DropoutThresholds
    /\ burn_is_trained = FALSE
    /\ burn_cph = "unfitted"
    /\ burn_ret = Returned("none", "none", 0)
    /\ burn_spans = <<>>
    /\ burn_ever_success = FALSE
    /\ anom_is_trained = FALSE
    /\ anom_op = "none"
    /\ anom_ret = [status |-> "none"]
    /\ \E model \in ModelNames : fit_log = [NoFits EXCEPT !.model = model]

\* daily_records = aggregator.aggregate(events);
\* df_features = engineer.enhance(daily_records)
LoadHistory ==
    /\ scenario = "models"
    /\ \E h \in ModelHistories :
         /\ history_data' = h
         /\ df_features' = ModelTables[h]
    /\ UNCHANGED <<feat_pc, scenario, cal_vars, burn_vars, adh_vars, anom_vars, fit_log,
                   rec_vars, call_vars, svc_vars, eng_vars>>

\* adherence_model.train(df_features)
TrainAdherenceModel ==
    /\ scenario = "models"
    /\ fit_log.model = "adherence"
    /\ fit_log.calls < MaxTrainCalls
    /\ \E after \in {AdherenceTrain(df_features, adh_is_trained, adh_scaler, adh_model)} :
         /\ adh_ret' = after.ret
         /\ adh_is_trained' = after.is_trained
         /\ adh_scaler' = after.scaler
         /\ adh_model' = after.model
         /\ fit_log' = [fit_log EXCEPT
                !.calls = @ + 1,
                !.adh_scaler = IF after.ret.status \in {"metrics", "ValueError"}
                               THEN fit_log.calls + 1 ELSE @,
                !.adh_model = IF after.ret.status = "metrics"
                              THEN fit_log.calls + 1 ELSE @]
    /\ adh_ever_success' = (adh_ever_success \/ adh_ret' = Returned("train", "metrics", 0))
    /\ adh_work' = AdhTrainWork(df_features)
    /\ UNCHANGED <<feat_vars, cal_vars, burn_vars, anom_vars, rec_vars, call_vars, svc_vars, eng_vars>>

\* burnout_model.train(df_features)
TrainBurnoutModel ==
    /\ scenario = "models"
    /\ fit_log.model = "burnout"
    /\ fit_log.calls < MaxTrainCalls
    /\ burn_spans' = IF PrepareDataRaises(df_features) THEN <<>>
                     ELSE EpisodeSpans(df_features, burn_threshold)
    /\ \E fit_ok \in BOOLEAN, response_ok \in BOOLEAN :
         \E after \in {BurnoutTrain(df_features, burn_threshold, burn_is_trained,
                                    burn_cph, fit_ok, response_ok)} :
            /\ burn_ret' = after.ret
            /\ burn_is_trained' = after.is_trained
            /\ burn_cph' = after.cph
            /\ fit_log' = [fit_log EXCEPT
                  !.calls = @ + 1,
                  !.burn_cph = IF after.ret.status = "success"
                                  \/ (after.ret.status = "error" /\ fit_ok)
                               THEN fit_log.calls + 1 ELSE @]
    /\ burn_ever_success' = (burn_ever_success \/ burn_ret'.status = "success")
    /\ UNCHANGED <<feat_vars, cal_vars, burn_threshold, adh_vars, anom_vars,
                   rec_vars, call_vars, svc_vars, eng_vars>>

\* anomaly_detector.train(df_features)
TrainAnomalyDetector ==
    /\ scenario = "models"
    /\ fit_log.model = "anomaly"
    /\ fit_log.calls < MaxTrainCalls
    /\ \E n_anomalies \in {0, 1} :
         \E after \in {AnomalyTrain(df_features, anom_is_trained, n_anomalies)} :
            /\ anom_ret' = after.ret
            /\ anom_is_trained' = after.is_trained
            /\ fit_log' = [fit_log EXCEPT
                  !.calls = @ + 1,
                  !.anom_model = IF after.ret.status = "success"
                                 THEN fit_log.calls + 1 ELSE @]
    /\ anom_op' = "train"
    /\ UNCHANGED <<feat_vars, cal_vars, burn_vars, adh_vars, rec_vars, call_vars, svc_vars, eng_vars>>

ModelsNext ==
    \/ LoadHistory
    \/ TrainAdherenceModel
    \/ TrainBurnoutModel
    \/ TrainAnomalyDetector
    \/ AdhPredict
    \/ BurnPredict
    \/ AnomCheck

\* no train call counted
FitLogIdle == fit_log = NoFits

(***************************************************************************)
(* The service, one request at a time (src/src/api/main.py): the two       *)
(* training handlers and /predict run whole, on the real models.  Its      *)
(* EngineState is history_data, df_features, the adherence model, the      *)
(* burnout model and eng_is_trained.  A fitted model answers as a function *)
(* of today's input, which eng_fits holds; every fit may produce any such  *)
(* function.                                                               *)
(***************************************************************************)

\* bound: the training requests the service completes
MaxTrainings == 2
\* bound: the longest history a training request supplies
MaxEngineDays == 14

\* self.burnout_model = BurnoutRiskModel(): dropout_threshold_days: int = 5
ServiceDropoutThreshold == 5

\* exercise for four days, five days without, exercise again
LapsingHistory(n) == [i \in 1..n |-> ScriptDay((i - 1) \notin 4..8, i - 1)]

\* request.history of /train-custom: none, too short for every model, one
\* with a single-class target, one only the adherence model can be fitted
\* on, one both can
CustomHistories ==
    { <<>>, ModelHistory("weekly", 5), ModelHistory("daily", 11),
      ModelHistory("weekly", 11), LapsingHistory(MaxEngineDays) }

\* generate_history(params): history_days records that end yesterday
SimulatedHistories ==
    { ModelHistory("weekly", 5), ModelHistory("weekly", 11), LapsingHistory(MaxEngineDays) }

\* state.engineer.enhance(state.history_data) of each of these histories
EngineTables == [h \in CustomHistories |-> enhance(h)]

\* the body of a /predict request: exercise_minutes, and sleep_hours * 60
EngineInputs ==
    { [exercise_minutes |-> 5, sleep_minutes |-> 480],
      [exercise_minutes |-> 45, sleep_minutes |-> 120] }

\* what a fitted classifier and a fitted Cox model can answer for each input
AdherenceFits == [EngineInputs -> {10, 90}]
BurnoutFits == [EngineInputs -> {50, 150}]
Unfitted == <<>>

\* today_record, dated after the last record of the history
EngineTodayRecord(history, input) ==
    [TodayRecord("http", input.exercise_minutes) EXCEPT !.date = Len(history)]

\* full_list = state.history_data + [today_record]
FullList(history, today_record) == history \o <<today_record>>

\* df_full = state.engineer.enhance(full_list), for the histories above
PredictTables ==
    [ h \in CustomHistories |->
        [ input \in EngineInputs |-> enhance(FullList(h, EngineTodayRecord(h, input))) ] ]

DfFull(history, input) ==
    IF history \in CustomHistories THEN PredictTables[history][input]
    ELSE enhance(FullList(history, EngineTodayRecord(history, input)))

\* feature_row = df_full.iloc[-1].to_dict(), as the recommender reads it:
\* the sleep entered for today and the misses counted up to today
TodayFeatureRow(history, input) ==
    LET df_full == DfFull(history, input)
    IN [k \in {"sleep_duration_minutes", "consecutive_misses"} |->
          IF k = "sleep_duration_minutes" THEN input.sleep_minutes
          ELSE df_full[Len(df_full)].consecutive_misses]

\* a /predict request that accumulates today's record in the history
HistoryAfterPredict_Accumulate(history, today_record) == FullList(history, today_record)

\* state.history_data after a /predict request: the handler builds
\* full_list as a new list and assigns nothing
HistoryAfterPredict(history, today_record) == history

\* a training request that reports the service trained only when the
\* adherence model is
IsTrainedAfterTraining_WhenAdherenceTrained(adherence_trained) == adherence_trained

\* state.is_trained = True, whatever the two train calls returned or raised
IsTrainedAfterTraining(adherence_trained) == TRUE

NoRequest ==
    [ trainings |-> 0, op |-> "none", input |-> <<>>, status |-> "none",
      rec |-> NoRecommendation, repeat |-> FALSE ]

EngineInit ==
    /\ scenario = "engine"
    /\ feat_pc = "serve"
    /\ calendar = 0
    /\ gap_used = FALSE
    /\ history_data = <<>>
    /\ df_features = <<>>
    /\ adh_is_trained = FALSE
    /\ adh_scaler = "unfitted"
    /\ adh_model = "unfitted"
    /\ adh_ret = Returned("none", "none", 0)
    /\ adh_ever_success = FALSE
    /\ adh_work = NoWork
    /\ burn_threshold = ServiceDropoutThreshold
    /\ burn_is_trained = FALSE
    /\ burn_cph = "unfitted"
    /\ burn_ret = Returned("none", "none", 0)
    /\ burn_spans = <<>>
    /\ burn_ever_success = FALSE
    /\ eng_is_trained = FALSE
    /\ eng_fits = [adherence |-> Unfitted, burnout |-> Unfitted]
    /\ eng_req = NoRequest

\* the body the two training handlers share, on the history they are given
Training(op, history) ==
    /\ scenario = "engine"
    /\ eng_req.trainings < MaxTrainings
    /\ history_data' = history
    /\ \E table \in {EngineTables[history]} :
         /\ df_features' = table
         /\ \E adh \in {AdherenceTrain(table, adh_is_trained, adh_scaler, adh_model)},
               fit_ok \in BOOLEAN, response_ok \in BOOLEAN :
              \E burn \in {BurnoutTrain(table, burn_threshold, burn_is_trained, burn_cph,
                                        fit_ok, response_ok)} :
                 /\ adh_ret' = adh.ret
                 /\ adh_is_trained' = adh.is_trained
                 /\ adh_scaler' = adh.scaler
                 /\ adh_model' = adh.model
                 /\ burn_ret' = burn.ret
                 /\ burn_is_trained' = burn.is_trained
                 /\ burn_cph' = burn.cph
                 /\ \E adherence \in IF adh.ret.status \in {"metrics", "ValueError"}
                                        /\ adh.is_trained
                                     THEN AdherenceFits ELSE {eng_fits.adherence},
                       burnout \in IF burn.cph = "fitted"
                                      /\ (burn.ret.status = "success"
                                          \/ (burn.ret.status = "error" /\ fit_ok))
                                   THEN BurnoutFits ELSE {eng_fits.burnout} :
                      eng_fits' = [adherence |-> adherence, burnout |-> burnout]
                 /\ eng_is_trained' = IsTrainedAfterTraining(adh.is_trained)
                 /\ eng_req' = [ trainings |-> eng_req.trainings + 1, op |-> op,
                                 input |-> <<>>, status |-> "trained",
                                 rec |-> NoRecommendation, repeat |-> FALSE ]
    /\ UNCHANGED <<feat_pc, scenario, cal_vars, burn_threshold, burn_spans, burn_ever_success,
                   adh_ever_success, adh_work, anom_vars, rec_vars, call_vars, svc_vars,
                   fit_log>>

\* POST /simulate-train
SimulateAndTrain == \E history \in SimulatedHistories : Training("simulate_and_train", history)

\* POST /train-custom
TrainCustom == \E history \in CustomHistories : Training("train_custom", history)

\* what POST /predict hands back for an input, in a state of the service
PredictOutcome(input) ==
    HttpPredict([ path |-> "http",
                  service_trained |-> eng_is_trained,
                  adh_is_trained |-> adh_is_trained,
                  burn_is_trained |-> burn_is_trained,
                  proba |-> IF adh_is_trained THEN eng_fits.adherence[input] ELSE 0,
                  hazard |-> IF burn_is_trained THEN eng_fits.burnout[input] ELSE 0,
                  exercise_minutes |-> input.exercise_minutes,
                  feature_row |-> IF eng_is_trained THEN TodayFeatureRow(history_data, input)
                                  ELSE <<>> ])

\* POST /predict
Predict ==
    /\ scenario = "engine"
    /\ \E input \in EngineInputs :
         \E out \in {PredictOutcome(input)} :
            /\ eng_req' = [ trainings |-> eng_req.trainings, op |-> "predict", input |-> input, status |-> out.status,
                            rec |-> out.rec,
                            repeat |-> eng_req.op = "predict" /\ eng_req.input = input ]
            /\ history_data' =
                 IF out.status = "http_400" THEN history_data
                 ELSE HistoryAfterPredict(history_data,
                                          EngineTodayRecord(history_data, input))
    /\ UNCHANGED <<df_features, feat_pc, scenario, cal_vars, burn_vars, adh_vars, anom_vars,
                   eng_is_trained, eng_fits, rec_vars, call_vars, svc_vars, fit_log>>

EngineNext == SimulateAndTrain \/ TrainCustom \/ Predict

\* the service not started
EngineIdle ==
    /\ eng_is_trained = FALSE
    /\ eng_fits = [adherence |-> Unfitted, burnout |-> Unfitted]
    /\ eng_req = NoRequest

(***************************************************************************)
(* Specifications: one per component, the others idle                      *)
(***************************************************************************)

InitRecommender ==
    /\ RecInit
    /\ FeatIdle
    /\ CalIdle
    /\ BurnIdle
    /\ AdhIdle
    /\ AnomIdle
    /\ CallerIdle
    /\ ServiceIdle
    /\ FitLogIdle
    /\ EngineIdle

SpecRecommender == InitRecommender /\ [][RecNext]_vars

InitFeatures ==
    /\ FeatInit
    /\ RecIdle
    /\ CalIdle
    /\ BurnIdle
    /\ AdhIdle
    /\ AnomIdle
    /\ CallerIdle
    /\ ServiceIdle
    /\ FitLogIdle
    /\ EngineIdle

SpecFeatures == InitFeatures /\ [][FeatNext]_vars

InitShuffle ==
    /\ ShuffleInit
    /\ RecIdle
    /\ CalIdle
    /\ BurnIdle
    /\ AdhIdle
    /\ AnomIdle
    /\ CallerIdle
    /\ ServiceIdle
    /\ FitLogIdle
    /\ EngineIdle

SpecShuffle == InitShuffle /\ [][ShuffleNext]_vars

InitBurnout ==
    /\ BurnInit
    /\ RecIdle
    /\ AdhIdle
    /\ AnomIdle
    /\ CallerIdle
    /\ ServiceIdle
    /\ FitLogIdle
    /\ EngineIdle

SpecBurnout == InitBurnout /\ [][BurnNext]_vars

InitAdherence ==
    /\ AdhInit
    /\ RecIdle
    /\ BurnIdle
    /\ AnomIdle
    /\ CallerIdle
    /\ ServiceIdle
    /\ FitLogIdle
    /\ EngineIdle

SpecAdherence == InitAdherence /\ [][AdhNext]_vars

InitAnomaly ==
    /\ AnomInit
    /\ RecIdle
    /\ BurnIdle
    /\ AdhIdle
    /\ CallerIdle
    /\ ServiceIdle
    /\ FitLogIdle
    /\ EngineIdle

SpecAnomaly == InitAnomaly /\ [][AnomNext]_vars

InitCaller ==
    /\ CallerInit
    /\ RecIdle
    /\ FeatIdle
    /\ CalIdle
    /\ BurnIdle
    /\ AdhIdle
    /\ AnomIdle
    /\ ServiceIdle
    /\ FitLogIdle
    /\ EngineIdle

SpecCaller == InitCaller /\ [][CallerNext]_vars

InitService ==
    /\ ServiceInit
    /\ RecIdle
    /\ FeatIdle
    /\ CalIdle
    /\ BurnIdle
    /\ AdhIdle
    /\ AnomIdle
    /\ CallerIdle
    /\ FitLogIdle
    /\ EngineIdle

SpecService == InitService /\ [][ServiceNext]_vars

InitModels ==
    /\ ModelsInit
    /\ RecIdle
    /\ CallerIdle
    /\ ServiceIdle
    /\ EngineIdle

SpecModels == InitModels /\ [][ModelsNext]_vars

InitEngine ==
    /\ EngineInit
    /\ RecIdle
    /\ AnomIdle
    /\ CallerIdle
    /\ ServiceIdle
    /\ FitLogIdle

SpecEngine == InitEngine /\ [][EngineNext]_vars

(***************************************************************************)
(* RecommendationEngine: claims                                            *)
(***************************************************************************)

Called == rec_out # NoCall
SleepOf(args) == FeatureGet(args.recent_features, "sleep_duration_minutes", DefaultSleepMinutes)
MissedOf(args) == FeatureGet(args.recent_features, "consecutive_misses", DefaultMissedDays)

\* C1: whenever the feature row carries sleep_duration_minutes < 180 the
\* returned recommendation_type is recovery, whatever adherence_prob,
\* burnout_risk and is_anomaly are.
C1_SleepOverride ==
    (Called /\ "sleep_duration_minutes" \in DOMAIN rec_in.recent_features
            /\ rec_in.recent_features["sleep_duration_minutes"] < 180)
        => rec_out[1].recommendation_type = "recovery"

\* C1 witness: two hours of sleep with a high burnout score, a high
\* adherence probability and no anomaly still gives recovery.
C1_Witness ==
    /\ Called
    /\ "sleep_duration_minutes" \in DOMAIN rec_in.recent_features
    /\ rec_in.recent_features["sleep_duration_minutes"] = 120
    /\ rec_in.burnout_risk = 150
    /\ rec_in.adherence_prob = 90
    /\ ~rec_in.is_anomaly
    /\ rec_out[1].recommendation_type = "recovery"

\* C2: with sleep >= 180 and no anomaly, burnout_risk > 1.2 gives scale_down
\* for every adherence_prob in [0,1].
C2_BurnoutBeforeAdherence ==
    (Called /\ SleepOf(rec_in) >= 180 /\ ~rec_in.is_anomaly /\ rec_in.burnout_risk > 120)
        => rec_out[1].recommendation_type = "scale_down"

\* C2 witness: burnout_risk = 1.5 with adherence_prob = 0.9 gives scale_down.
C2_Witness ==
    /\ Called
    /\ SleepOf(rec_in) >= 180
    /\ ~rec_in.is_anomaly
    /\ rec_in.burnout_risk = 150
    /\ rec_in.adherence_prob = 90
    /\ rec_out[1].recommendation_type = "scale_down"

\* The seven-row priority table of the specification, row by row.
TableCondition(row, args) ==
    CASE row = 1 -> SleepOf(args) < 180
      [] row = 2 -> args.is_anomaly
      [] row = 3 -> args.burnout_risk > 120
      [] row = 4 -> args.adherence_prob < 40
      [] row = 5 -> 40 <= args.adherence_prob /\ args.adherence_prob < 50
      [] row = 6 -> 50 <= args.adherence_prob /\ args.adherence_prob <= 70
      [] row = 7 -> args.adherence_prob > 70

TableType(row) ==
    CASE row \in {1, 2} -> "recovery"
      [] row = 3 -> "scale_down"
      [] row = 4 -> "anchoring"
      [] row \in {5, 6, 7} -> "maintain"

TableTitle(row, args) ==
    CASE row = 1 -> "Sleep First, Train Later"
      [] row = 2 -> "Check-in time"
      [] row = 3 -> "Protect your energy"
      [] row = 4 -> IF MissedOf(args) > 7 THEN "Everything okay?" ELSE "Don't break the chain"
      [] row = 5 -> "Time to Shift Gears"
      [] row = 6 -> "Good Work"
      [] row = 7 -> "Keep It Up!"

MatchingRows(args) == { row \in 1..7 : TableCondition(row, args) }
FirstRow(args) == CHOOSE row \in MatchingRows(args) : \A r \in MatchingRows(args) : row <= r

\* C3: the type and the message framing returned are those of the first
\* matching row of the seven-row table; some row matches every input, and
\* exactly one of the adherence rows 4..7 does.
C3_DecisionTable ==
    Called =>
        /\ MatchingRows(rec_in) # {}
        /\ Cardinality(MatchingRows(rec_in) \cap 4..7) = 1
        /\ rec_out[1].recommendation_type = TableType(FirstRow(rec_in))
        /\ rec_out[1].message_title = TableTitle(FirstRow(rec_in), rec_in)

\* C3 witness: the boundary values together: sleep = 180, burnout = 1.2,
\* no anomaly, adherence = 0.4 (row 5, not row 4).
C3_Witness ==
    /\ Called
    /\ SleepOf(rec_in) = 180
    /\ rec_in.burnout_risk = 120
    /\ ~rec_in.is_anomaly
    /\ rec_in.adherence_prob = 40
    /\ rec_out[1].message_title = "Time to Shift Gears"


(***************************************************************************)
(* FeatureEngineer: claims                                                 *)
(***************************************************************************)

Enhanced == feat_pc = "enhanced"

\* C4: in the table enhance returns, consecutive_misses is 0 on every row
\* whose exercise_done is true; on a row whose exercise_done is false it is
\* the previous row's value plus 1 (1 on the first row).  So in the gap
\* script, when the day before the 14 forced misses was active, the last row
\* has consecutive_misses = 14 and is_streak_break = 1.
C4_ConsecutiveMisses ==
    Enhanced =>
        /\ \A i \in 1..Len(df_features) :
             df_features[i].consecutive_misses =
                IF df_features[i].exercise_done THEN 0
                ELSE IF i = 1 THEN 1
                ELSE df_features[i - 1].consecutive_misses + 1
        /\ (scenario = "gap" /\ df_features[Len(df_features) - 14].exercise_done)
             => /\ df_features[Len(df_features)].consecutive_misses = 14
                /\ df_features[Len(df_features)].is_streak_break = 1

\* C4 witness: the gap script ran on a history whose day before the gap was
\* active, and the last row counts 14 misses.
C4_Witness ==
    /\ Enhanced
    /\ scenario = "gap"
    /\ df_features[Len(df_features) - 14].exercise_done
    /\ \A i \in (Len(df_features) - 13)..Len(df_features) : ~df_features[i].exercise_done
    /\ df_features[Len(df_features)].consecutive_misses = 14
    /\ df_features[Len(df_features)].is_streak_break = 1

\* C5: no lookahead: the first i rows of the table are the table of the first
\* i records alone (in date order), so two histories that agree on their
\* first i records get the same derived values on those rows, whatever
\* their later records are.
C5_NoLookahead ==
    Enhanced =>
        LET sorted == SortByDate(history_data)
        IN \A i \in 1..Len(df_features) :
                SubSeq(df_features, 1, i) = enhance(SubSeq(sorted, 1, i))

\* C5 witness: a table long enough for the 7-row windows to be full and for
\* the 30-row baseline to be defined, whose last record differs from the one
\* before it.
C5_Witness ==
    /\ Enhanced
    /\ scenario = "table"
    /\ Len(df_features) >= 7
    /\ df_features[Len(df_features)].effort_ratio > 0
    /\ df_features[Len(df_features)].total_steps # df_features[Len(df_features) - 1].total_steps
    /\ df_features[Len(df_features)].steps_7d_avg # df_features[Len(df_features) - 1].steps_7d_avg


\* C13: on every row of every table enhance returns, the first two rows
\* included, sleep_consistency_score is greater than 0 and at most 1.
C13_ConsistencyScoreRange ==
    feat_pc = "enhanced"
        => \A i \in 1..Len(df_features) :
              /\ df_features[i].sleep_consistency_score > 0
              /\ df_features[i].sleep_consistency_score <= 1000

RECURSIVE ByDateUpTo(_, _)
\* the records of the list whose date is at most d, picked date by date
ByDateUpTo(records, d) ==
    IF d < 0 THEN <<>>
    ELSE ByDateUpTo(records, d - 1)
            \o (IF d \in DatesOf(records)
                THEN <<records[CHOOSE i \in 1..Len(records) : records[i].date = d]>>
                ELSE <<>>)

\* C14: enhance returns one row per record, in strictly ascending date
\* order, the same table as for the records handed over in date order
\* (so the same for every permutation), and an empty table for an empty list.
C14_SortedOneRowPerRecord ==
    feat_pc = "enhanced"
        => /\ Len(df_features) = Len(history_data)
           /\ \A i \in 1..Len(df_features) : \A j \in 1..Len(df_features) :
                 i < j => df_features[i].date < df_features[j].date
           /\ df_features = enhance(ByDateUpTo(history_data, MaxShuffle + 1))
           /\ (history_data = <<>> => df_features = <<>>)

\* a table was computed from three records given latest first
C14_Witness ==
    /\ feat_pc = "enhanced"
    /\ Len(history_data) = 3
    /\ history_data[1].date > history_data[2].date
    /\ history_data[2].date > history_data[3].date
    /\ Len(df_features) = 3

\* the number of rows of the run of misses that ends at row i, a miss being a
\* day with data_missing_flag true or exercise_done false
TrailingMissRun(data, i) ==
    Cardinality({k \in 1..i : \A j \in k..i : MissOrMissing(data, j) = 1})

\* C17: consecutive_misses at a row is the length of the run of miss days
\* ending at that row, a day being a miss when data_missing_flag is true or
\* exercise_done is false.
C17_RunOfMissIndicator ==
    feat_pc = "enhanced"
        => \A i \in 1..Len(df_features) :
              df_features[i].consecutive_misses = TrailingMissRun(history_data, i)

\* C18: on every row, is_recovery_period is 1 exactly when consecutive_misses
\* is 1 or 2, is_streak_break is 1 exactly when it is 5 or more,
\* days_since_workout is consecutive_misses on a streak break and 0
\* otherwise; the two flags are never both 1, and both are 0 when
\* consecutive_misses is 0, 3 or 4.
C18_RecoveryAndBreakFlags ==
    feat_pc = "enhanced"
        => \A i \in 1..Len(df_features) :
              LET row == df_features[i]
                  misses == row.consecutive_misses
              IN /\ row.is_recovery_period \in {0, 1}
                 /\ row.is_streak_break \in {0, 1}
                 /\ (row.is_recovery_period = 1 <=> misses \in {1, 2})
                 /\ (row.is_streak_break = 1 <=> misses >= 5)
                 /\ row.days_since_workout = (IF row.is_streak_break = 1 THEN misses ELSE 0)
                 /\ ~(row.is_recovery_period = 1 /\ row.is_streak_break = 1)
                 /\ (misses \in {0, 3, 4}
                        => row.is_recovery_period = 0 /\ row.is_streak_break = 0)

\* a table with a row after a workout and rows two, four and five misses
\* into a run
C18_Witness ==
    /\ feat_pc = "enhanced"
    /\ \E i \in 1..Len(df_features) : df_features[i].consecutive_misses = 0
    /\ \E i \in 1..Len(df_features) :
          df_features[i].consecutive_misses = 2 /\ df_features[i].is_recovery_period = 1
    /\ \E i \in 1..Len(df_features) : df_features[i].consecutive_misses = 4
    /\ \E i \in 1..Len(df_features) :
          df_features[i].consecutive_misses = 5 /\ df_features[i].days_since_workout = 5

\* the rows among i-2, i-1, i with data_missing_flag true or exercise_done false
MissesInWindow(data, i) ==
    Cardinality({k \in (i - 2)..i : k >= 1 /\ (data[k].data_missing_flag \/ ~data[k].exercise_done)})

\* C19: rolling_misses_3d is 0 on the first two rows, misses included; on
\* every later row it is the number of rows among that row and the two
\* before it with data_missing_flag true or exercise_done false; it is
\* always an integer in 0..3.
C19_RollingMisses ==
    feat_pc = "enhanced"
        => \A i \in 1..Len(df_features) :
              /\ df_features[i].rolling_misses_3d \in 0..3
              /\ df_features[i].rolling_misses_3d
                    = (IF i <= 2 THEN 0 ELSE MissesInWindow(history_data, i))

\* a table of three misses or more: 0 on the first two rows, 3 on the third
C19_Witness ==
    /\ feat_pc = "enhanced"
    /\ Len(df_features) >= 4
    /\ ~history_data[1].exercise_done
    /\ history_data[2].data_missing_flag
    /\ df_features[1].rolling_misses_3d = 0
    /\ df_features[2].rolling_misses_3d = 0
    /\ df_features[3].rolling_misses_3d = 3
    /\ df_features[4].rolling_misses_3d = 2

(***************************************************************************)
(* BurnoutRiskModel: claims                                                *)
(***************************************************************************)

\* a table with rows has been handed to train, which segmented it
Segmented == df_features # <<>> /\ feat_pc = "serve"

RECURSIVE SumDurations(_)
SumDurations(episodes) ==
    IF episodes = <<>> THEN 0 ELSE Head(episodes).duration + SumDurations(Tail(episodes))

\* C6: the episodes prepare_data returns have non-negative durations, no two
\* of them share a day, and their durations sum to at most the number of
\* calendar days between the first and the last row of the table.
C6_EpisodesDisjoint ==
    Segmented =>
        /\ Len(prepare_data(df_features, burn_threshold)) = Len(burn_spans)
        /\ \A k \in 1..Len(burn_spans) :
             prepare_data(df_features, burn_threshold)[k].duration >= 0
        /\ \A j, k \in 1..Len(burn_spans) :
             j < k => \/ burn_spans[j].end < burn_spans[k].start
                      \/ burn_spans[k].end < burn_spans[j].start
        /\ SumDurations(prepare_data(df_features, burn_threshold))
             <= df_features[Len(df_features)].date - df_features[1].date

\* C6 witness: a table with a calendar gap that segments into a died episode
\* followed by another episode.
C6_Witness ==
    /\ Segmented
    /\ gap_used
    /\ Len(burn_spans) >= 2
    /\ burn_spans[1].event = 1
    /\ burn_spans[2].start > burn_spans[1].end

\* C7: whenever segmentation yields fewer than 2 episodes (the empty table
\* included), a train call returns a structured non-success status without
\* raising and leaves is_trained and the fitter as they were.
C7_InsufficientEpisodes ==
    [][ (burn_ret'.op = "train" /\ Len(burn_spans') < MinEpisodes)
            => /\ ~burn_ret'.raised
               /\ burn_ret'.status \in {"warning", "error"}
               /\ UNCHANGED <<burn_is_trained, burn_cph>> ]_vars

\* C9: as long as no train call has returned status success,
\* predict_current_risk returns exactly 0.5 without raising, for every
\* covariate map, and leaves is_trained and the fitter as they were.
C9_UntrainedDefaultRisk ==
    [][ (burn_ret'.op = "predict" /\ ~burn_ever_success')
            => /\ ~burn_ret'.raised
               /\ burn_ret'.value = DefaultRisk
               /\ UNCHANGED <<burn_is_trained, burn_cph>> ]_vars

\* the rows of the run of exercise_done = false rows that starts at row i
MissRunFrom(df, i) ==
    Cardinality({k \in i..Len(df) : \A j \in i..k : ~df[j].exercise_done})

\* the death dates: the first day of every maximal run of exercise_done =
\* false rows of at least dropout_threshold rows
DeathDates(df, dropout_threshold) ==
    { df[i].date : i \in { r \in 1..Len(df) :
                             /\ ~df[r].exercise_done
                             /\ (r = 1 \/ df[r - 1].exercise_done)
                             /\ MissRunFrom(df, r) >= dropout_threshold } }

\* the start of the episode that is open when death date d is met: the first
\* day of the table, or the first day with exercise after the death before d
EpisodeStart(df, dropout_threshold, d) ==
    LET earlier == { x \in DeathDates(df, dropout_threshold) : x < d }
        prev == CHOOSE x \in earlier : \A y \in earlier : y <= x
        restarts == { df[i].date : i \in { r \in 1..Len(df) :
                                             df[r].date > prev /\ df[r].exercise_done } }
    IN IF earlier = {} \/ prev = df[1].date THEN df[1].date
       ELSE CHOOSE x \in restarts : \A y \in restarts : x <= y

\* the rows of the table from date start to date end
RowsBetween(df, start, end) ==
    Cardinality({ i \in 1..Len(df) : start <= df[i].date /\ df[i].date <= end })

\* C20: every episode with event = 1 ends on a death date (the first day of
\* a maximal run of exercise_done = false rows at least dropout_threshold
\* long), so never on a shorter run; and every death date later than the
\* start of the open episode, with at least 3 rows from that start to it,
\* yields exactly one event = 1 episode, whose duration is the number of
\* calendar days from that start to the death date.
C20_EpisodesEndOnDeathDates ==
    Segmented
        => LET deaths == DeathDates(df_features, burn_threshold)
               lives == prepare_data(df_features, burn_threshold)
               died == { k \in 1..Len(burn_spans) : burn_spans[k].event = 1 }
           IN /\ Len(lives) = Len(burn_spans)
              /\ \A k \in died :
                    /\ burn_spans[k].end \in deaths
                    /\ burn_spans[k].start
                          = EpisodeStart(df_features, burn_threshold, burn_spans[k].end)
                    /\ lives[k].event = 1
                    /\ lives[k].duration = burn_spans[k].end - burn_spans[k].start
              /\ \A d \in deaths :
                    LET start == EpisodeStart(df_features, burn_threshold, d)
                    IN (d > start /\ RowsBetween(df_features, start, d) >= MinEpisodeRows)
                          => Cardinality({ k \in died : burn_spans[k].end = d }) = 1

\* a history with a day left out, a run of misses shorter than the threshold
\* and an episode that ended in a dropout
C20_Witness ==
    /\ Segmented
    /\ gap_used
    /\ \E k \in 1..Len(burn_spans) :
          /\ burn_spans[k].event = 1
          /\ burn_spans[k].end - burn_spans[k].start
                > RowsBetween(df_features, burn_spans[k].start, burn_spans[k].end) - 1
    /\ \E i \in 1..Len(df_features) :
          /\ ~df_features[i].exercise_done
          /\ (i = 1 \/ df_features[i - 1].exercise_done)
          /\ MissRunFrom(df_features, i) < burn_threshold

FirstExerciseAfter(df, d) ==
    LET restarts == { df[i].date : i \in { r \in 1..Len(df) :
                                             df[r].date > d /\ df[r].exercise_done } }
    IN IF restarts = {} THEN NoDate
       ELSE CHOOSE x \in restarts : \A y \in restarts : x <= y

\* the death dates the loop processes: those later than the open start,
\* which is every death date but one on the first row of the table
ProcessedDeaths(df, dropout_threshold) ==
    DeathDates(df, dropout_threshold) \ {df[1].date}

\* C22: after each processed death date the next episode starts at the first
\* later row with exercise; if there is none, segmentation stops and no
\* censored episode is produced; otherwise, after the last death date, the
\* span from the open start to the last row is one final event = 0 episode
\* when it has at least 3 rows.  The result holds at most one censored
\* episode, and it is the last one.
C22_RestartAndFinalCensored ==
    (Segmented /\ DeathDates(df_features, burn_threshold) # {})
        => LET df == df_features
               last == df[Len(df)].date
               calls == PeriodCalls(df, burn_threshold)
               processed == ProcessedDeaths(df, burn_threshold)
               last_death == CHOOSE x \in processed : \A y \in processed : y <= x
               open_start == IF processed = {} THEN df[1].date
                             ELSE FirstExerciseAfter(df, last_death)
               censored == { k \in 1..Len(burn_spans) : burn_spans[k].event = 0 }
           IN /\ \A k \in 2..Len(calls) :
                    /\ calls[k - 1].event = 1
                    /\ calls[k].start = FirstExerciseAfter(df, calls[k - 1].end)
              /\ { calls[k].end : k \in { j \in 1..Len(calls) : calls[j].event = 1 } }
                    = processed
              /\ IF open_start = NoDate
                 THEN censored = {}
                 ELSE /\ calls[Len(calls)] = [start |-> open_start, end |-> last, event |-> 0]
                      /\ (RowsBetween(df, open_start, last) >= MinEpisodeRows
                            <=> censored = {Len(burn_spans)})
              /\ Cardinality(censored) <= 1
              /\ \A k \in censored : k = Len(burn_spans)

\* a table segmented at a dropout, with a restart and a final censored
\* episode after a died one
C22_Witness ==
    /\ Segmented
    /\ Len(burn_spans) = 2
    /\ burn_spans[1].event = 1
    /\ burn_spans[2].event = 0
    /\ burn_spans[2].start > burn_spans[1].end + 1

\* C23: the span of an event = 0 episode contains no run of misses of at
\* least dropout_threshold rows, also when the table begins with such a run.
C23_CensoredHasNoDropout ==
    Segmented
        => \A k \in 1..Len(burn_spans) :
              burn_spans[k].event = 0
                 => \A d \in DeathDates(df_features, burn_threshold) :
                       ~(burn_spans[k].start <= d /\ d <= burn_spans[k].end)

(***************************************************************************)
(* AdherenceModel: claims                                                  *)
(***************************************************************************)

\* C8: a predict_next_day_proba call fails with the not-trained error if and
\* only if no train call on the instance has returned its metrics; a train
\* that returned the insufficient-data status, or raised, is not one.
C8_NotTrainedIffNoSuccess ==
    adh_ret.op = "predict" =>
        ((adh_ret.raised /\ adh_ret.status = "Model not trained yet")
            <=> ~adh_ever_success)

\* a prediction refused after a train call that returned the insufficient-data
\* status for a table of fewer than 11 rows
C8_Witness ==
    /\ adh_ret = Raised("predict", "Model not trained yet")
    /\ feat_pc = "serve"
    /\ Len(df_features) \in 1..MinTrainRows
    /\ ~adh_ever_success

\* C11: a train call on a table of fewer than 11 rows (fewer than 10 rows
\* after target preparation) returns the error status without raising and
\* leaves is_trained, the scaler and the classifier as they were.
C11_InsufficientRows ==
    [][ (adh_ret'.op = "train" /\ Len(df_features') < MinTrainRows + 1)
            => /\ ~adh_ret'.raised
               /\ adh_ret'.status = "error"
               /\ UNCHANGED <<adh_is_trained, adh_scaler, adh_model>> ]_vars

\* a train call has run prepare_data on a table with rows
Prepared == adh_ret.op = "train" /\ adh_work.prepared

\* C24: prepare_data on a table of n >= 1 rows returns n - 1 rows; the
\* target of returned row i is exercise_done of input row i + 1 as 0/1, its
\* feature values are those of input row i, and the caller's table is as it
\* was (one row per record, no target column).
C24_PrepareDataShiftsTarget ==
    Prepared
        => LET n == Len(history_data)
           IN /\ n >= 1
              /\ Len(adh_work.X) = n - 1
              /\ Len(adh_work.y) = n - 1
              /\ \A i \in 1..(n - 1) :
                    /\ adh_work.y[i] = (IF history_data[i + 1].exercise_done THEN 1 ELSE 0)
                    /\ DOMAIN adh_work.X[i] = AdhFeatureColumns
                    /\ \A c \in AdhFeatureColumns : adh_work.X[i][c] = df_features[i][c]
                    /\ adh_work.X[i].exercise_minutes = history_data[i].exercise_minutes
              /\ Len(df_features) = n
              /\ \A i \in 1..n :
                    /\ "target_next_day" \notin DOMAIN df_features[i]
                    /\ df_features[i].date = history_data[i].date
                    /\ df_features[i].exercise_done = history_data[i].exercise_done

\* prepare_data has run on a table of several rows whose last row differs
\* from the one before
C24_Witness ==
    /\ Prepared
    /\ Len(history_data) >= 3
    /\ history_data[Len(history_data)].exercise_done
    /\ ~history_data[Len(history_data) - 1].exercise_done
    /\ adh_work.y[Len(adh_work.y)] = 1
    /\ adh_work.y[Len(adh_work.y) - 1] = 0

\* C25: with n >= 10 prepared rows the training split is the first
\* floor(0.8 n) rows and the test split the remaining rows in table order:
\* every training row precedes every test row, the splits are disjoint and
\* cover all rows, both are non-empty, and the scaler is fitted on the
\* training split only.
C25_ChronologicalSplit ==
    (Prepared /\ Len(adh_work.X) >= 10)
        => LET n == Len(adh_work.X)
           IN /\ adh_work.split
              /\ adh_work.train = 1..((4 * n) \div 5)
              /\ adh_work.test = (1..n) \ adh_work.train
              /\ \A a \in adh_work.train : \A b \in adh_work.test : a < b
              /\ adh_work.train \cap adh_work.test = {}
              /\ adh_work.train \cup adh_work.test = 1..n
              /\ adh_work.train # {}
              /\ adh_work.test # {}
              /\ adh_work.scaler_fit = adh_work.train

\* a train call has split ten prepared rows or more
C25_Witness ==
    /\ Prepared
    /\ Len(adh_work.X) >= 10
    /\ adh_work.split
    /\ Cardinality(adh_work.train) >= 8
    /\ Cardinality(adh_work.test) >= 2

\* C26: whenever the model is in the trained state, its scaler and its
\* classifier were fitted by the same train call.
C26_ScalerAndClassifierAgree ==
    adh_is_trained => (adh_scaler = "fitted" /\ adh_model = "fitted")

(***************************************************************************)
(* AnomalyDetector: claims                                                 *)
(***************************************************************************)

\* C10: every check_anomaly result has the fields is_anomaly and
\* severity_score, and on an untrained detector is_anomaly is false and
\* severity_score is 0.
C10_CheckAnomalyFields ==
    anom_op = "check_anomaly" =>
        /\ {"is_anomaly", "severity_score"} \subseteq DOMAIN anom_ret
        /\ ~anom_is_trained => (anom_ret.is_anomaly = FALSE /\ anom_ret.severity_score = 0)

(***************************************************************************)
(* Callers: claims                                                         *)
(***************************************************************************)

\* C12: in both handlers, when the adherence prediction fails the handler
\* passes the neutral probability 0.5 to generate_recommendation and a
\* recommendation is handed back.
C12_NeutralDefault ==
    (call_out.status # "none" /\ call_out.status # "http_400" /\ call_out.adherence_failed)
        => /\ call_out.adherence_prob = 50
           /\ call_out.rec # NoRecommendation
           /\ call_out.rec[1].adherence_probability = 50

\* C16: today's record of every handler has exercise_done true exactly when
\* its exercise_minutes is greater than 0.
C16_ExerciseDoneIffMinutes ==
    (call_out.status # "none" /\ call_out.status # "http_400")
        => (call_out.today_record[1].exercise_done
                <=> call_out.today_record[1].exercise_minutes > 0)

(***************************************************************************)
(* Service: claims                                                         *)
(***************************************************************************)

\* C15: a /predict request that overlaps a training request and returns a
\* recommendation has read the history, the adherence model and the burnout
\* model of one and the same training request.
C15_NoPartialState ==
    (svc_pred.pc = "returned" /\ svc_pred.overlapped)
        => /\ svc_pred.adherence_model = svc_pred.history_data
           /\ svc_pred.burnout_model = svc_pred.history_data

(***************************************************************************)
(* The three models: claims                                                *)
(***************************************************************************)

\* a train call of the model under training is being made
TrainCall(model) == fit_log.model = model /\ fit_log'.calls = fit_log.calls + 1

\* C27: for each of the three models is_trained never goes from true back
\* to false; a train call refused for insufficient data (fewer than 10
\* prepared rows, fewer than 2 episodes, fewer than 14 rows) leaves
\* is_trained and the fitted artifacts as they were, and inference on a
\* trained model is never answered as untrained.
C27_TrainedStaysTrained ==
    [][ /\ (adh_is_trained => adh_is_trained')
        /\ (burn_is_trained => burn_is_trained')
        /\ (anom_is_trained => anom_is_trained')
        /\ (TrainCall("adherence") /\ Len(df_features) < MinTrainRows + 1)
              => /\ UNCHANGED <<adh_is_trained, adh_scaler, adh_model>>
                 /\ fit_log'.adh_scaler = fit_log.adh_scaler
                 /\ fit_log'.adh_model = fit_log.adh_model
        /\ (TrainCall("burnout")
                /\ (df_features = <<>>
                      \/ Len(prepare_data(df_features, burn_threshold)) < MinEpisodes))
              => /\ UNCHANGED <<burn_is_trained, burn_cph>>
                 /\ fit_log'.burn_cph = fit_log.burn_cph
        /\ (TrainCall("anomaly") /\ Len(df_features) < MinAnomalyRows)
              => /\ UNCHANGED anom_is_trained
                 /\ fit_log'.anom_model = fit_log.anom_model
        /\ (adh_is_trained /\ adh_ret' # adh_ret /\ adh_ret'.op = "predict")
              => adh_ret'.status # "Model not trained yet"
        /\ (anom_is_trained /\ anom_op' = "check_anomaly")
              => "score" \notin DOMAIN anom_ret'
      ]_vars

\* the detector, fitted by its first train call, has refused the table of
\* a later call and is still trained
C27_Witness ==
    /\ fit_log.model = "anomaly"
    /\ fit_log.calls >= 2
    /\ fit_log.anom_model = 1
    /\ anom_op = "train"
    /\ anom_ret.status = "error"
    /\ anom_is_trained

(***************************************************************************)
(* The service, one request at a time: claims                              *)
(***************************************************************************)

\* the shared engine state a request can read: the history, the feature
\* table, both models with their artifacts, and the service's flag
engine_state ==
    <<history_data, df_features,
      adh_is_trained, adh_scaler, adh_model, eng_fits.adherence,
      burn_threshold, burn_is_trained, burn_cph, eng_fits.burnout,
      eng_is_trained>>

\* C28: whenever the service's is_trained flag is true, the adherence model
\* is trained, after any sequence of /simulate-train, /train-custom and
\* /predict requests.
C28_ServiceTrainedImpliesAdherenceTrained == eng_is_trained => adh_is_trained

\* C29: while no training request has completed, a /predict request is
\* rejected with status 400, produces no recommendation and changes no
\* state; once a training request has completed, no /predict request is
\* rejected with status 400.
C29_RejectedUntilTrained ==
    [][ eng_req'.op = "predict"
          => IF eng_req.trainings = 0
             THEN /\ eng_req'.status = "http_400"
                  /\ eng_req'.rec = NoRecommendation
                  /\ UNCHANGED engine_state
             ELSE eng_req'.status # "http_400" ]_vars

\* a /predict request answered with a recommendation after a training
\* request on a history too short to train either model
C29_Witness ==
    /\ eng_req.op = "predict"
    /\ eng_req.trainings >= 1
    /\ eng_req.status = "recommendation"
    /\ ~adh_is_trained
    /\ ~burn_is_trained

\* C30: a /predict request leaves the history, the feature table and both
\* models with their artifacts as they were, and a /predict request that
\* repeats the input of the /predict request before it is answered with
\* the same recommendation.
C30_PredictLeavesStateUnchanged ==
    [][ eng_req'.op = "predict"
          => /\ UNCHANGED engine_state
             /\ eng_req'.repeat
                  => /\ eng_req'.status = eng_req.status
                     /\ eng_req'.rec = eng_req.rec ]_vars

\* the second of two /predict requests with the same input, both models
\* trained
C30_Witness ==
    /\ eng_req.op = "predict"
    /\ eng_req.repeat
    /\ eng_req.status = "recommendation"
    /\ adh_is_trained
    /\ burn_is_trained
    /\ Len(history_data) = MaxEngineDays

====
